---------------------------- MODULE Spec2Model ----------------------------
(***************************************************************************)
(* Model of the syro cron scheduler (package syro, CronScheduler):         *)
(* job registration, the per-job jobLock (a sync.Mutex taken with          *)
(* TryLock), and the pipeline each firing runs inside the lock.            *)
(*                                                                         *)
(* One scheduler value s is modelled.  The trigger source (robfig/cron)    *)
(* is external: it calls jobLock.Run of an installed entry on a goroutine  *)
(* of its own at each due time.  Goroutines are the elements of Threads.   *)
(*                                                                         *)
(* The repository holds two versions of the scheduler.  The actions are    *)
(* those of the later one (Job.Schedule, OnComplete, OnError).  The        *)
(* earlier one (syro.cron.go: Job.Freq, PostExecution, OnSuccess) has the  *)
(* same Register checks, the same jobLock and the same storage calls, but  *)
(* its closure reads the start time after the `running` write and its      *)
(* hooks differ: its closure is modelled by the actions named Syro...      *)
(***************************************************************************)
EXTENDS Naturals, Sequences, FiniteSets

(***************************************************************************)
(* Bounds of the model.                                                    *)
(***************************************************************************)
\* goroutines the trigger source may have in flight at the same time
MaxThreads == 2
\* firings the trigger source delivers in one behaviour
MaxFires == 2

\* readings the clocks take in one behaviour (the last tick they reach)
MaxTime == 4
\* calls of SetJobsToInactive on the scheduler's store in one behaviour
MaxInactive == 1
\* execution records inserted before FindExecutions is called
MaxDocs == 2
\* calls of ErrGroup.Add in one behaviour
MaxAdds == 3
\* runs of one behaviour of the run specification in which storage calls
\* fail
MaxFailingRuns == 1

Threads == 1..MaxThreads

(***************************************************************************)
(* Values.                                                                 *)
(***************************************************************************)
\* a nil error (fmt prints it as <nil>)
NoErr == "<nil>"
\* the error a failing storage call returns
StorageErr == "storage error"
\* the error cron.AddJob returns for a schedule it cannot parse
ParseErr == "failed to parse schedule"
\* errors a work function may return
FuncErrs == {"boom"}

\* CronScheduler.Source of the modelled scheduler
Source == "src"

JobNames == {"", "a", "A"}
Schedules == {"", "@every 1s", "bad"}

\* type Job struct; isNil marks the nil *Job, Func/OnError/OnComplete say
\* whether the function value is non-nil
NilJob ==
    [isNil |-> TRUE, Name |-> "", Schedule |-> "", Func |-> FALSE,
     Description |-> "", OnError |-> FALSE, OnComplete |-> FALSE]

\* the jobs handed to Register: nil, and every combination of name, schedule,
\* work function and hooks
JobInputs ==
    {NilJob} \cup
    [isNil : {FALSE}, Name : JobNames, Schedule : Schedules, Func : BOOLEAN,
     Description : {"d"}, OnError : BOOLEAN, OnComplete : BOOLEAN]

\* const JobStatus...
JobStatusInitialized == "initialized"
JobStatusRunning == "running"
JobStatusDone == "done"
JobStatusInactive == "inactive"
JobStatusRemoved == "removed"

VARIABLES
    cron,        \* s.cron: "nil" or "cron"
    Jobs,        \* s.Jobs: the registry, a sequence of Job, as a reader
                 \* that loads the slice at one moment finds it
    jobsMem,     \* s.Jobs in memory: the pointer, length and capacity of
                 \* the slice, and the arrays allocated for it
    CronStorage, \* s.CronStorage in memory: the two words of the interface
    attaching,   \* the WithStorage call in progress: the word it has yet to
                 \* store, and its argument
    entries,     \* the jobLocks handed to cron.AddJob, in order
    mu,          \* mu[e]: jobLock.mu of entry e is locked
    ret,         \* the error the last call to return one returned (Register,
                 \* RegisterExecution)
    pc,          \* pc[t]: where goroutine t is in jobLock.Run
    tjob,        \* tjob[t]: the entry goroutine t runs (0: none)
    terr,        \* terr[t]: err, the result of j.Func() in this run
    terrors,     \* terrors[t]: the run's ErrGroup (messages)
    tlog,        \* tlog[t]: what this firing has done so far, in order
    trecv,       \* trecv[t]: the receiver goroutine t loaded from
                 \* s.CronStorage for the storage call it is in ("nil":
                 \* it is in none)
    stats,       \* stats[e]: counters of entry e, the status writes
                 \* issued for it so far, in order, and how its latest run
                 \* to reach its end ended ("done", "doneFailed", "panic"),
                 \* and the time of its latest `running` write
    nFires,      \* firings delivered so far
    jobsColl,    \* jobsColl[st]: the job records of storage st, by name
                 \* (source is Source)
    histColl,    \* histColl[st]: the execution records of storage st, in
                 \* insertion order
    crashed,     \* an unrecovered panic ended the process
    cronRunning, \* cron.Start() was called: the trigger source dispatches
    tstart,      \* tstart[t]: jobStart of the run of goroutine t, its wall
                 \* clock reading (NoTime: not taken in this firing)
    tmono,       \* tmono[t]: the monotonic clock reading of that jobStart
    tfin,        \* tfin[t]: FinishedAt of the record the run is building
    tdur,        \* tdur[t]: ExecutionTime of that record (NoTime: not
                 \* computed in this firing)
    clock,       \* the monotonic clock, which time.Since measures with
    wall,        \* the wall clock, which time.Now() shows
    cronListColl, \* the documents of MongoCronStorage.cronListColl, in
                 \* insertion order, of every source
    docHist,     \* per (source, name): time of the first successful write
                 \* and status of the latest one
    errGroup,    \* an ErrGroup: isNil, Props (ID, WithNewline) and Errors
    egAdded,     \* the arguments of the Add calls made on errGroup, in order
    reg,         \* reg[c]: the Register call goroutine c is in or was
                 \* last in: position, job, storageSpecified, the words
                 \* of s.Jobs it has loaded (h), how far its loop is (i),
                 \* the receiver it loaded from s.CronStorage for its
                 \* RegisterJob call (recv), and what the call returned
    inactiveCalls, \* one entry per SetJobsToInactive(Source) called on the
                 \* scheduler's store: did it succeed, and was a job's lock
                 \* held at that moment
    found        \* the filter, the limit and the result of the latest
                 \* FindExecutions call

vars == <<cron, Jobs, jobsMem, CronStorage, attaching, entries, mu, ret, pc,
          tjob, terr, terrors, tlog, trecv, stats, nFires, jobsColl, histColl,
          crashed, cronRunning, tstart, tmono, tfin, tdur, clock, wall,
          cronListColl, docHist, errGroup, egAdded, reg, inactiveCalls,
          found>>

schedVars == <<cron, Jobs, jobsMem, CronStorage, attaching, entries, ret>>
threadVars == <<pc, tjob, terr, terrors, tlog, trecv>>
storeVars == <<jobsColl, histColl>>
\* the time readings a run keeps
timeVars == <<tstart, tmono, tfin, tdur>>
\* the clocks, the storage seen document by document, the ErrGroup used on
\* its own and the calls made from outside: the steps of a firing leave them
\* alone
libVars == <<clock, wall, cronListColl, docHist, errGroup, egAdded, reg,
            inactiveCalls, found>>
\* the calls made from outside the firings: Register calls side by side,
\* SetJobsToInactive on the scheduler's store, FindExecutions
apiVars == <<reg, inactiveCalls, found>>

\* the zero time.Time
NoTime == 0

\* the storages handed to WithStorage
Storages == {"storage", "other"}

\* what a call that panicked leaves in place of a result
Panicked == "panic"

(***************************************************************************)
(* s.CronStorage in memory.  A value of the interface type CronStorage is  *)
(* two words: tab, which names the dynamic type and its methods, and data, *)
(* the pointer to the *MongoCronStorage.  The nil interface has both nil.  *)
(* WithStorage takes no lock and its assignment is not atomic, so a        *)
(* goroutine that reads s.CronStorage while it runs finds one word of the  *)
(* old value and one of the new.                                           *)
(***************************************************************************)
NilIface == [tab |-> "nil", data |-> "nil"]

\* the interface value of the argument of WithStorage
Iface(storage) ==
    IF storage = "nil" THEN NilIface
    ELSE [tab |-> "*MongoCronStorage", data |-> storage]

\* s.CronStorage != nil: the comparison looks at the word tab
NotNil(i) == i.tab # "nil"

\* the storage a method call on the interface i reaches: the call loads the
\* method from tab and hands it data as m; "nil": the call dereferences nil
\* (no tab: no method table; no data: m.cronListColl, m.cronHistoryColl of a
\* nil m) and panics
Receiver(i) == IF i.tab = "nil" THEN "nil" ELSE i.data

\* no WithStorage call in progress
NoAttach == [pc |-> "idle", storage |-> "nil"]

(***************************************************************************)
(* s.Jobs in memory.  A slice is three words, a pointer to an array, a     *)
(* length and a capacity; s.Jobs = append(s.Jobs, j) loads them, and, when *)
(* the capacity is used up, has growslice allocate a larger array and copy *)
(* the elements, and stores the capacity and the pointer of that array;    *)
(* then it stores the new length, and last the element.  A lone caller     *)
(* sees none of this.  Register takes no lock, so the loads and stores of  *)
(* calls running side by side interleave word by word.                     *)
(***************************************************************************)
\* what a load gives that reads past the end of an array, or an element
\* growslice copied from there: a word that is not an element of s.Jobs
WildJob ==
    [isNil |-> FALSE, Name |-> "<out of bounds>", Schedule |-> "",
     Func |-> FALSE, Description |-> "", OnError |-> FALSE,
     OnComplete |-> FALSE]

\* the nil slice: no array
NoMem == [ptr |-> 0, len |-> 0, cap |-> 0, arrs |-> <<>>]

\* the words of s.Jobs a call has loaded: none yet
NoHdr == [ptr |-> 0, len |-> 0, cap |-> 0, got |-> {}]

\* the word at index i of the array p points to
Slot(m, p, i) ==
    IF p = 0 \/ i > Len(m.arrs[p]) THEN WildJob ELSE m.arrs[p][i]

\* s.Jobs as a reader that loads pointer and length at one moment finds it
View(m) == [i \in 1..m.len |-> Slot(m, m.ptr, i)]

\* the size classes of the allocator, in elements of one word
RoundCap(k) == IF k <= 4 THEN k ELSE IF k <= 6 THEN 6 ELSE 8

\* the capacity growslice chooses for n elements, from the capacity oldcap
GrowCap(oldcap, n) == RoundCap(IF n > 2 * oldcap THEN n ELSE 2 * oldcap)

\* the array growslice allocates for a slice loaded as h: the elements up to
\* h.len copied, the others zero
GrowArray(m, h) ==
    [i \in 1..GrowCap(h.cap, h.len + 1) |->
        IF i <= h.len THEN Slot(m, h.ptr, i) ELSE NilJob]

\* s.Jobs = append(s.Jobs, j) with no other access in between
AppendMem(m, j) ==
    IF m.len + 1 > m.cap
    THEN [ptr |-> Len(m.arrs) + 1,
          len |-> m.len + 1,
          cap |-> GrowCap(m.cap, m.len + 1),
          arrs |-> Append(m.arrs,
                          [GrowArray(m, m) EXCEPT ![m.len + 1] = j])]
    ELSE [m EXCEPT !.len = @ + 1, !.arrs[m.ptr][m.len + 1] = j]

NoRecord ==
    [present |-> FALSE, status |-> "", sched |-> "", descr |-> "",
     error |-> "", exit_with_err |-> FALSE]

ZeroStats == [fired |-> 0, acquired |-> 0, started |-> 0, execs |-> 0,
              skips |-> 0, returned |-> 0, writes |-> <<>>, lastEnd |-> "",
              runningAt |-> NoTime]

\* NewErrGroup(ep...): an empty group, with the props if one is given
NewErrGroup(id, withNewline) ==
    [isNil |-> FALSE, ID |-> id, WithNewline |-> withNewline, Errors |-> <<>>]

\* a nil *ErrGroup
NilErrGroup ==
    [isNil |-> TRUE, ID |-> "", WithNewline |-> FALSE, Errors |-> <<>>]

\* NewCronScheduler(cron, source); cron may be nil
InitScheduler ==
    /\ cron \in {"nil", "cron"}
    /\ Jobs = <<>>
    /\ jobsMem = NoMem
    /\ CronStorage = NilIface
    /\ attaching = NoAttach
    /\ entries = <<>>
    /\ mu = <<>>
    /\ ret = NoErr
    /\ pc = [t \in Threads |-> "idle"]
    /\ tjob = [t \in Threads |-> 0]
    /\ terr = [t \in Threads |-> NoErr]
    /\ terrors = [t \in Threads |-> <<>>]
    /\ tlog = [t \in Threads |-> <<>>]
    /\ trecv = [t \in Threads |-> "nil"]
    /\ stats = <<>>
    /\ nFires = 0
    /\ jobsColl = [st \in Storages |-> [n \in JobNames |-> NoRecord]]
    /\ histColl = [st \in Storages |-> <<>>]
    /\ crashed = FALSE
    /\ cronRunning = FALSE
    /\ tstart = [t \in Threads |-> NoTime]
    /\ tmono = [t \in Threads |-> NoTime]
    /\ tfin = [t \in Threads |-> NoTime]
    /\ tdur = [t \in Threads |-> NoTime]

\* the sources and job names of the documents written to cronListColl
Sources == {Source, "other"}
DocNames == {"a", "A"}
DocKeys == Sources \X DocNames

\* the clocks and an empty cronListColl
InitStore ==
    /\ clock = 1
    /\ wall = 1
    /\ cronListColl = <<>>
    /\ docHist = [k \in DocKeys |-> [first |-> NoTime, last |-> ""]]

\* no Register call in progress, no SetJobsToInactive applied, no
\* FindExecutions made
NoCall ==
    [pc |-> "idle", job |-> NilJob, storageSpecified |-> FALSE,
     recv |-> "nil", h |-> NoHdr, i |-> 0, ret |-> NoErr]

NoFind ==
    [called |-> FALSE, filter |-> <<>>, maxLimit |-> 0, docs |-> <<>>,
     err |-> NoErr]

InitApi ==
    /\ reg = [c \in Threads |-> NoCall]
    /\ inactiveCalls = <<>>
    /\ found = NoFind

Init ==
    /\ InitScheduler
    /\ InitStore
    /\ InitApi
    /\ errGroup = NewErrGroup("", FALSE)
    /\ egAdded = <<>>

(***************************************************************************)
(* Storage (MongoCronStorage), as far as the scheduler uses it.            *)
(***************************************************************************)
\* mutant of RegisterJob: exit_with_err and error are only set when fnErr is
\* not nil
RegisterJobKeepsError(coll, name, sched, descr, status, fnErr) ==
    [coll EXCEPT ![name] =
        [present |-> TRUE, status |-> status, sched |-> sched, descr |-> descr,
         error |-> IF fnErr # NoErr THEN fnErr ELSE coll[name].error,
         exit_with_err |-> IF fnErr # NoErr THEN TRUE
                           ELSE coll[name].exit_with_err]]

\* mutant of RegisterJob: the status of a record set to inactive is kept
RegisterJobSticky(coll, name, sched, descr, status, fnErr) ==
    [coll EXCEPT ![name] =
        [present |-> TRUE,
         status |-> IF coll[name].present
                       /\ coll[name].status = JobStatusInactive
                    THEN JobStatusInactive ELSE status,
         sched |-> sched, descr |-> descr,
         error |-> IF fnErr # NoErr THEN fnErr ELSE "",
         exit_with_err |-> fnErr # NoErr]]

\* MongoCronStorage.RegisterJob: upsert of the record of (source, name)
RegisterJob(coll, name, sched, descr, status, fnErr) ==
    [coll EXCEPT ![name] =
        [present |-> TRUE, status |-> status, sched |-> sched, descr |-> descr,
         error |-> IF fnErr # NoErr THEN fnErr ELSE "",
         exit_with_err |-> fnErr # NoErr]]

\* mutant of newCronExecutionLog: Error is set from err without the nil check
newCronExecutionLogUnchecked(source, name, initializedAt, err, now, since) ==
    [Source |-> source, Name |-> name, InitializedAt |-> initializedAt,
     FinishedAt |-> now, ExecutionTime |-> since,
     Error |-> err]

\* newCronExecutionLog: the record of one run; now is what time.Now() shows
\* when the record is built, since what time.Since(initializedAt) measures
\* after that
newCronExecutionLog(source, name, initializedAt, err, now, since) ==
    [Source |-> source, Name |-> name, InitializedAt |-> initializedAt,
     FinishedAt |-> now, ExecutionTime |-> since,
     Error |-> IF err # NoErr THEN err ELSE ""]

\* MongoCronStorage.SetJobsToInactive(Source): the status of every record
\* of the source is set to inactive
SetJobsToInactive(coll) ==
    [n \in DOMAIN coll |->
        IF coll[n].present
        THEN [coll[n] EXCEPT !.status = JobStatusInactive]
        ELSE coll[n]]

\* MongoCronStorage.RegisterExecution: insert of one execution record
RegisterExecution(coll, ex) == Append(coll, ex)

\* ErrGroup.Add: a nil error is not added
ErrGroupAdd(eg, err) == IF err # NoErr THEN Append(eg, err) ELSE eg

(***************************************************************************)
(* MongoCronStorage, document by document: cronListColl holds the CronJob  *)
(* documents of every source; jobsColl above is what it holds for Source,  *)
(* by name.                                                                *)
(***************************************************************************)
\* the index of the first document that matches {source, name}, 0 if none
RECURSIVE FindOne(_, _, _, _)
FindOne(docs, i, source, name) ==
    IF i > Len(docs) THEN 0
    ELSE IF docs[i].source = source /\ docs[i].name = name THEN i
    ELSE FindOne(docs, i + 1, source, name)

\* the $set of RegisterJob applied to document d at time now
SetFields(d, sched, descr, status, fnErr, now) ==
    [d EXCEPT !.sched = sched,
              !.status = status,
              !.descr = descr,
              !.updated_at = now,
              !.exit_with_err = (fnErr # NoErr),
              !.error = IF fnErr # NoErr THEN fnErr ELSE "",
              !.finished_at = IF status = JobStatusDone THEN now ELSE @]

\* the document an upsert inserts: the fields of the filter and $setOnInsert
NewDoc(source, name, now) ==
    [source |-> source, name |-> name, created_at |-> now, sched |-> "",
     status |-> "", descr |-> "", updated_at |-> NoTime,
     exit_with_err |-> FALSE, error |-> "", finished_at |-> NoTime]

\* mutant of RegisterJobDoc: created_at is part of $set
RegisterJobDocSetsCreatedAt(docs, source, name, sched, descr, status, fnErr, now) ==
    LET i == FindOne(docs, 1, source, name)
    IN  IF i # 0
        THEN [docs EXCEPT ![i] =
                 [SetFields(@, sched, descr, status, fnErr, now)
                     EXCEPT !.created_at = now]]
        ELSE Append(docs, SetFields(NewDoc(source, name, now), sched, descr,
                                    status, fnErr, now))

\* MongoCronStorage.RegisterJob: UpdateOne with upsert on {source, name}
RegisterJobDoc(docs, source, name, sched, descr, status, fnErr, now) ==
    LET i == FindOne(docs, 1, source, name)
    IN  IF i # 0
        THEN [docs EXCEPT ![i] =
                 SetFields(@, sched, descr, status, fnErr, now)]
        ELSE Append(docs, SetFields(NewDoc(source, name, now), sched, descr,
                                    status, fnErr, now))

\* mutant of SetJobsToInactiveDocs: the filter is empty
SetJobsToInactiveEveryDoc(docs, source) ==
    [i \in 1..Len(docs) |-> [docs[i] EXCEPT !.status = JobStatusInactive]]

\* MongoCronStorage.SetJobsToInactive: UpdateMany on {source}
SetJobsToInactiveDocs(docs, source) ==
    [i \in 1..Len(docs) |->
        IF docs[i].source = source
        THEN [docs[i] EXCEPT !.status = JobStatusInactive]
        ELSE docs[i]]

\* m.RegisterJob(source, name, ...) is called at time wall; ok: the
\* UpdateOne succeeds
RegisterJobCall(source, name, status, fnErr, ok) ==
    /\ wall < MaxTime
    /\ wall' = wall + 1
    /\ IF ok
       THEN /\ cronListColl' = RegisterJobDoc(cronListColl, source, name,
                                              "@every 1s", "d", status, fnErr,
                                              wall)
            /\ docHist' = [docHist EXCEPT ![<<source, name>>] =
                  [first |-> IF @.first = NoTime THEN wall ELSE @.first,
                   last |-> status]]
       ELSE UNCHANGED <<cronListColl, docHist>>
    /\ UNCHANGED <<clock, errGroup, egAdded>>
    /\ UNCHANGED timeVars
    /\ UNCHANGED apiVars
    /\ UNCHANGED <<mu, stats, nFires, crashed, cronRunning>>
    /\ UNCHANGED schedVars
    /\ UNCHANGED threadVars
    /\ UNCHANGED storeVars

\* m.SetJobsToInactive(source) is called; ok: the UpdateMany succeeds
SetJobsToInactiveCall(source, ok) ==
    /\ wall < MaxTime
    /\ wall' = wall + 1
    /\ IF ok
       THEN /\ cronListColl' = SetJobsToInactiveDocs(cronListColl, source)
            /\ docHist' = [k \in DocKeys |->
                  IF k[1] = source /\ docHist[k].first # NoTime
                  THEN [docHist[k] EXCEPT !.last = JobStatusInactive]
                  ELSE docHist[k]]
       ELSE UNCHANGED <<cronListColl, docHist>>
    /\ UNCHANGED <<clock, errGroup, egAdded>>
    /\ UNCHANGED timeVars
    /\ UNCHANGED apiVars
    /\ UNCHANGED <<mu, stats, nFires, crashed, cronRunning>>
    /\ UNCHANGED schedVars
    /\ UNCHANGED threadVars
    /\ UNCHANGED storeVars

\* The storage specification: RegisterJob and SetJobsToInactive are called
\* on one store for two sources, each call succeeding or failing.
NextStore ==
    \/ \E source \in Sources, name \in DocNames,
          status \in {JobStatusInitialized, JobStatusRunning, JobStatusDone},
          fnErr \in {NoErr} \cup FuncErrs, ok \in BOOLEAN :
             RegisterJobCall(source, name, status, fnErr, ok)
    \/ \E source \in Sources \cup {"none"}, ok \in BOOLEAN :
             SetJobsToInactiveCall(source, ok)

SpecStore == Init /\ [][NextStore]_vars

(***************************************************************************)
(* ErrGroup.                                                               *)
(***************************************************************************)
\* the errors handed to Add: nil and two errors
ErrInputs == {NoErr, "first error", "second error"}

\* the groups Add is called on: nil, and new ones without and with props
ErrGroups ==
    {NilErrGroup} \cup
    {NewErrGroup(id, nl) : id \in {"", "id"}, nl \in BOOLEAN}

\* mutant of Add: the new error is put in front
AddInFront(g, err) ==
    IF ~g.isNil /\ err # NoErr
    THEN [g EXCEPT !.Errors = <<err>> \o @]
    ELSE g

\* func (eg *ErrGroup) Add(err error)
Add(g, err) ==
    IF g.isNil THEN g ELSE [g EXCEPT !.Errors = ErrGroupAdd(@, err)]

\* func (eg *ErrGroup) GetErrors() []error; the nil slice lists nothing
GetErrors(g) == IF ~g.isNil THEN g.Errors ELSE <<>>

\* func (eg *ErrGroup) Len() int
ErrGroupLen(g) == IF g.isNil THEN 0 ELSE Len(g.Errors)

\* the loop of Error(): what it writes for the errors from index i on
RECURSIVE ErrorLoop(_, _)
ErrorLoop(g, i) ==
    IF i > Len(g.Errors) THEN ""
    ELSE (IF g.Errors[i] # NoErr
          THEN g.Errors[i] \o "; " \o (IF g.WithNewline THEN "\n" ELSE "")
          ELSE "")
         \o ErrorLoop(g, i + 1)

\* func (eg *ErrGroup) Error() string
Error(g) ==
    IF g.isNil \/ Len(g.Errors) = 0 THEN ""
    ELSE (IF g.ID # "" THEN g.ID \o ": " ELSE "") \o ErrorLoop(g, 1)

\* mutant of ToErr: the group is returned without the check of Len()
ToErrUnchecked(g) ==
    IF g.isNil THEN [isNil |-> TRUE, text |-> ""]
    ELSE [isNil |-> FALSE, text |-> Error(g)]

\* func (eg *ErrGroup) ToErr() error: nil, or the group as an error, which
\* is given here by its Error() text
ToErr(g) ==
    IF g.isNil THEN [isNil |-> TRUE, text |-> ""]
    ELSE IF ErrGroupLen(g) = 0 THEN [isNil |-> TRUE, text |-> ""]
    ELSE [isNil |-> FALSE, text |-> Error(g)]

\* eg.Add(err) is called
AddCall(err) ==
    /\ Len(egAdded) < MaxAdds
    /\ errGroup' = Add(errGroup, err)
    /\ egAdded' = Append(egAdded, err)
    /\ UNCHANGED <<clock, wall, cronListColl, docHist>>
    /\ UNCHANGED timeVars
    /\ UNCHANGED apiVars
    /\ UNCHANGED <<mu, stats, nFires, crashed, cronRunning>>
    /\ UNCHANGED schedVars
    /\ UNCHANGED threadVars
    /\ UNCHANGED storeVars

\* The ErrGroup specification: Add is called up to MaxAdds times, with nil
\* and non-nil errors, on a nil group or on a new one with any props.
InitErrGroup ==
    /\ InitScheduler
    /\ InitStore
    /\ InitApi
    /\ errGroup \in ErrGroups
    /\ egAdded = <<>>

NextErrGroup == \E err \in ErrInputs : AddCall(err)

SpecErrGroup == InitErrGroup /\ [][NextErrGroup]_vars

(***************************************************************************)
(* CronScheduler.WithStorage and CronScheduler.Start.                      *)
(***************************************************************************)
\* WithStorage(storage) is called; storage may be nil.  s.CronStorage =
\* storage stores the two words of the interface, each with a store of its
\* own, in no order the other goroutines can rely on; first: the word that
\* is stored first
WithStorage(storage, first) ==
    /\ ~crashed
    /\ UNCHANGED libVars
    /\ UNCHANGED timeVars
    /\ attaching.pc = "idle"
    /\ first \in {"tab", "data"}
    /\ CronStorage' = [CronStorage EXCEPT ![first] = Iface(storage)[first]]
    /\ attaching' = [pc |-> IF first = "tab" THEN "data" ELSE "tab",
                     storage |-> storage]
    /\ UNCHANGED <<cron, Jobs, jobsMem, entries, mu, ret, stats, nFires, crashed,
                   cronRunning>>
    /\ UNCHANGED threadVars
    /\ UNCHANGED storeVars

\* the store of the other word of s.CronStorage = storage, and return s
WithStorageEnd ==
    /\ ~crashed
    /\ UNCHANGED libVars
    /\ UNCHANGED timeVars
    /\ attaching.pc # "idle"
    /\ CronStorage' = [CronStorage EXCEPT
                          ![attaching.pc] = Iface(attaching.storage)[attaching.pc]]
    /\ attaching' = NoAttach
    /\ UNCHANGED <<cron, Jobs, jobsMem, entries, mu, ret, stats, nFires, crashed,
                   cronRunning>>
    /\ UNCHANGED threadVars
    /\ UNCHANGED storeVars

\* the steps of the one WithStorage call that attaches the storage "storage"
\* to a scheduler that has none
AttachingOnce ==
    \/ \E first \in {"tab", "data"} :
          CronStorage = NilIface /\ WithStorage("storage", first)
    \/ WithStorageEnd

\* the steps of WithStorage calls, one after the other, with any of the
\* arguments storages
Attaching(storages) ==
    \/ \E storage \in storages, first \in {"tab", "data"} :
          WithStorage(storage, first)
    \/ WithStorageEnd

\* s.cron.Start(); on a nil s.cron it dereferences nil and panics
Start ==
    /\ ~crashed
    /\ UNCHANGED libVars
    /\ UNCHANGED timeVars
    /\ IF cron = "nil"
       THEN crashed' = TRUE /\ UNCHANGED cronRunning
       ELSE cronRunning' = TRUE /\ UNCHANGED crashed
    /\ UNCHANGED <<cron, Jobs, jobsMem, CronStorage, attaching, entries, mu, ret,
                   stats, nFires>>
    /\ UNCHANGED threadVars
    /\ UNCHANGED storeVars

(***************************************************************************)
(* CronScheduler.Register.                                                 *)
(***************************************************************************)
\* mutant of NameCheck: the loop returns after its first iteration
NameCheckFirstOnly(jobs, i, j) ==
    IF i > Len(jobs) THEN NoErr
    ELSE IF jobs[i].isNil THEN "one of the previously registered jobs is nil"
    ELSE IF jobs[i].Name = j.Name
         THEN "job with name " \o j.Name \o " already exists"
    ELSE NoErr

\* the loop over s.Jobs that looks for the name of j, from index i on
RECURSIVE NameCheck(_, _, _)
NameCheck(jobs, i, j) ==
    IF i > Len(jobs) THEN NoErr
    ELSE IF jobs[i].isNil THEN "one of the previously registered jobs is nil"
    ELSE IF jobs[i].Name = j.Name
         THEN "job with name " \o j.Name \o " already exists"
    ELSE NameCheck(jobs, i + 1, j)

\* mutant of Validate: the check of j.Func is missing
ValidateNoFunc(recvNil, j) ==
    IF j.isNil THEN "job cannot be nil"
    ELSE IF recvNil THEN "cron scheduler cannot be nil"
    ELSE IF cron = "nil" THEN "cron cannot be nil"
    ELSE IF j.Schedule = "" THEN "schedule has to be specified"
    ELSE IF j.Name = "" THEN "name has to be specified"
    ELSE NameCheck(Jobs, 1, j)

\* mutant of Validate: the name check returns the message of the schedule check
ValidateCopiedMessage(recvNil, j) ==
    IF j.isNil THEN "job cannot be nil"
    ELSE IF recvNil THEN "cron scheduler cannot be nil"
    ELSE IF cron = "nil" THEN "cron cannot be nil"
    ELSE IF j.Schedule = "" THEN "schedule has to be specified"
    ELSE IF j.Name = "" THEN "schedule has to be specified"
    ELSE IF ~j.Func THEN "job function cannot be nil"
    ELSE NoErr

\* mutant of Validate: the name is looked up in the store's records instead
\* of s.Jobs
ValidateAgainstStore(recvNil, j) ==
    IF j.isNil THEN "job cannot be nil"
    ELSE IF recvNil THEN "cron scheduler cannot be nil"
    ELSE IF cron = "nil" THEN "cron cannot be nil"
    ELSE IF j.Schedule = "" THEN "schedule has to be specified"
    ELSE IF j.Name = "" THEN "name has to be specified"
    ELSE IF ~j.Func THEN "job function cannot be nil"
    ELSE IF \E st \in Storages : jobsColl[st][j.Name].present
         THEN "job with name " \o j.Name \o " already exists"
    ELSE NoErr

\* mutant of Validate: the name is looked up before the schedule, the name
\* and the work function are checked
ValidateNameFirst(recvNil, j) ==
    IF j.isNil THEN "job cannot be nil"
    ELSE IF recvNil THEN "cron scheduler cannot be nil"
    ELSE IF cron = "nil" THEN "cron cannot be nil"
    ELSE IF NameCheck(Jobs, 1, j) # NoErr THEN NameCheck(Jobs, 1, j)
    ELSE IF j.Schedule = "" THEN "schedule has to be specified"
    ELSE IF j.Name = "" THEN "name has to be specified"
    ELSE IF ~j.Func THEN "job function cannot be nil"
    ELSE NoErr

\* the checks Register makes before it touches anything, in order;
\* recvNil: Register is called on a nil *CronScheduler
Validate(recvNil, j) ==
    IF j.isNil THEN "job cannot be nil"
    ELSE IF recvNil THEN "cron scheduler cannot be nil"
    ELSE IF cron = "nil" THEN "cron cannot be nil"
    ELSE IF j.Schedule = "" THEN "schedule has to be specified"
    ELSE IF j.Name = "" THEN "name has to be specified"
    ELSE IF ~j.Func THEN "job function cannot be nil"
    ELSE NameCheck(Jobs, 1, j)

\* the checks Register makes before its loop over s.Jobs (51-78)
ValidateArgs(recvNil, j) ==
    IF j.isNil THEN "job cannot be nil"
    ELSE IF recvNil THEN "cron scheduler cannot be nil"
    ELSE IF cron = "nil" THEN "cron cannot be nil"
    ELSE IF j.Schedule = "" THEN "schedule has to be specified"
    ELSE IF j.Name = "" THEN "name has to be specified"
    ELSE IF ~j.Func THEN "job function cannot be nil"
    ELSE NoErr

\* mutant of AddJobErr: the error of cron.AddJob is dropped
AddJobErrNever(schedule) == NoErr

\* cron.AddJob(schedule, joblock): fails on a schedule it cannot parse
AddJobErr(schedule) == IF schedule = "@every 1s" THEN NoErr ELSE ParseErr

\* newJobLock(func() {...}, name): the closure keeps j, name, schedule,
\* descr, source and storageSpecified
newJobLock(j, storageSpecified) ==
    [job |-> j, name |-> j.Name, schedule |-> j.Schedule,
     descr |-> j.Description, source |-> Source,
     storageSpecified |-> storageSpecified]

(***************************************************************************)
(* Register takes no lock.  It waits on the storage (the `initialized`     *)
(* write) and on the lock of the cron (AddJob) before it appends to        *)
(* s.Jobs, so firings and other calls run between its steps.  The call of  *)
(* goroutine c is at                                                       *)
(*   idle      not entered                                                 *)
(*   store     past the checks, before the `initialized` write             *)
(*   install   before s.cron.AddJob                                        *)
(*   append    before s.Jobs = append(s.Jobs, j)                           *)
(*   returned  Register has returned reg[c].ret                            *)
(* and, when Register calls run side by side, also at                      *)
(*   range     past the checks of the arguments, in the loop over s.Jobs   *)
(*   storeCap, storePtr, storeLen, storeElem                               *)
(*             in append, before the store of that word of s.Jobs          *)
(* cron.AddJob takes the lock of the cron, so it is one step.              *)
(***************************************************************************)
\* what no step of a Register call changes
regFrame ==
    <<cron, CronStorage, attaching, histColl, nFires, cronRunning, tstart,
      tmono, tfin, tdur, clock, wall, cronListColl, docHist, errGroup, egAdded, inactiveCalls,
      found>>

\* mutant of RegEnter: the `initialized` record is written before the job
\* is validated
RegEnterWritesFirst(c, recvNil, j) ==
    /\ ~crashed
    /\ reg[c].pc \in {"idle", "returned"}
    /\ LET verr == Validate(recvNil, j)
           storageSpecified == NotNil(CronStorage)
       IN  /\ jobsColl' =
                 IF storageSpecified /\ ~j.isNil
                 THEN [jobsColl EXCEPT ![Receiver(CronStorage)] =
                          RegisterJob(@, j.Name, j.Schedule, j.Description,
                                      JobStatusInitialized, NoErr)]
                 ELSE jobsColl
           /\ IF verr # NoErr
              THEN /\ reg' = [reg EXCEPT ![c] =
                         [NoCall EXCEPT !.pc = "returned", !.ret = verr]]
                   /\ ret' = verr
              ELSE /\ reg' = [reg EXCEPT ![c] =
                         [NoCall EXCEPT
                             !.pc = IF storageSpecified THEN "recv"
                                    ELSE "install",
                             !.job = j,
                             !.storageSpecified = storageSpecified]]
                   /\ UNCHANGED ret
    /\ UNCHANGED <<Jobs, jobsMem, entries, mu, stats, crashed>>
    /\ UNCHANGED regFrame
    /\ UNCHANGED threadVars

\* goroutine c calls Register(j) on the scheduler (recvNil: on a nil
\* *CronScheduler): the checks, and storageSpecified := s.CronStorage != nil
RegEnter(c, recvNil, j) ==
    /\ ~crashed
    /\ reg[c].pc \in {"idle", "returned"}
    /\ LET verr == Validate(recvNil, j)
           storageSpecified == NotNil(CronStorage)
       IN  IF verr # NoErr
           THEN /\ reg' = [reg EXCEPT ![c] =
                      [NoCall EXCEPT !.pc = "returned", !.ret = verr]]
                /\ ret' = verr
           ELSE /\ reg' = [reg EXCEPT ![c] =
                      [NoCall EXCEPT
                          !.pc = IF storageSpecified THEN "recv"
                                 ELSE "install",
                          !.job = j,
                          !.storageSpecified = storageSpecified]]
                /\ UNCHANGED ret
    /\ UNCHANGED <<Jobs, jobsMem, entries, mu, stats, jobsColl, crashed>>
    /\ UNCHANGED regFrame
    /\ UNCHANGED threadVars

\* mutant of RegStore: the error of the `initialized` write is dropped
RegStoreIgnoresErr(c, ok) ==
    /\ ~crashed
    /\ reg[c].pc = "store"
    /\ LET j == reg[c].job
       IN  jobsColl' =
              IF ok
              THEN [jobsColl EXCEPT ![reg[c].recv] =
                       RegisterJob(@, j.Name, j.Schedule, j.Description,
                                   JobStatusInitialized, NoErr)]
              ELSE jobsColl
    /\ reg' = [reg EXCEPT ![c].pc = "install", ![c].recv = "nil"]
    /\ UNCHANGED <<Jobs, jobsMem, entries, mu, stats, ret, crashed>>
    /\ UNCHANGED regFrame
    /\ UNCHANGED threadVars

\* Register loads s.CronStorage (part_003 98), finds both words, and calls
\* RegisterJob on what it loaded: the upsert is on its way and the call
\* waits for the answer; what WithStorage does from here on does not reach
\* this call
RegLoadStorage(c) ==
    /\ ~crashed
    /\ reg[c].pc = "recv"
    /\ Receiver(CronStorage) # "nil"
    /\ reg' = [reg EXCEPT ![c].pc = "store",
                          ![c].recv = Receiver(CronStorage)]
    /\ UNCHANGED <<Jobs, jobsMem, entries, mu, stats, jobsColl, ret, crashed>>
    /\ UNCHANGED regFrame
    /\ UNCHANGED threadVars

\* RegisterJob(source, name, schedule, descr, JobStatusInitialized, nil) of
\* the call of goroutine c is applied, or fails, on the storage the call
\* loaded, and returns; ok: it succeeds, else Register returns its error
RegStore(c, ok) ==
    /\ ~crashed
    /\ reg[c].pc = "store"
    /\ LET j == reg[c].job
       IN  IF ok
           THEN /\ jobsColl' = [jobsColl EXCEPT ![reg[c].recv] =
                      RegisterJob(@, j.Name, j.Schedule, j.Description,
                                  JobStatusInitialized, NoErr)]
                /\ reg' = [reg EXCEPT ![c].pc = "install",
                                      ![c].recv = "nil"]
                /\ UNCHANGED ret
           ELSE /\ jobsColl' = jobsColl
                /\ reg' = [reg EXCEPT ![c].pc = "returned",
                                      ![c].recv = "nil",
                                      ![c].ret = StorageErr]
                /\ ret' = StorageErr
    /\ UNCHANGED <<Jobs, jobsMem, entries, mu, stats, crashed>>
    /\ UNCHANGED regFrame
    /\ UNCHANGED threadVars

\* a word of s.CronStorage is nil when Register loads it to call RegisterJob (a
\* WithStorage call is half way, or has taken the storage away since
\* storageSpecified was computed): the call dereferences nil and Register
\* panics; recovered: the caller recovers it, else the process dies
RegStoreNil(c, recovered) ==
    /\ ~crashed
    /\ reg[c].pc = "recv"
    /\ Receiver(CronStorage) = "nil"
    /\ reg' = [reg EXCEPT ![c].pc = "returned", ![c].ret = Panicked]
    /\ ret' = Panicked
    /\ crashed' = ~recovered
    /\ UNCHANGED <<Jobs, jobsMem, entries, mu, stats, jobsColl>>
    /\ UNCHANGED regFrame
    /\ UNCHANGED threadVars

\* mutant of RegInstall: when cron.AddJob refuses the job the `initialized`
\* record is taken back
RegInstallRollsBack(c) ==
    /\ ~crashed
    /\ reg[c].pc = "install"
    /\ LET j == reg[c].job
       IN  IF AddJobErr(j.Schedule) # NoErr
           THEN /\ reg' = [reg EXCEPT ![c].pc = "returned",
                                      ![c].ret = AddJobErr(j.Schedule)]
                /\ ret' = AddJobErr(j.Schedule)
                /\ jobsColl' = [st \in Storages |->
                                  [jobsColl[st] EXCEPT ![j.Name] = NoRecord]]
                /\ UNCHANGED <<entries, mu, stats>>
           ELSE /\ entries' =
                      Append(entries, newJobLock(j, reg[c].storageSpecified))
                /\ mu' = Append(mu, FALSE)
                /\ stats' = Append(stats,
                      [ZeroStats EXCEPT !.writes =
                          IF reg[c].storageSpecified
                          THEN <<JobStatusInitialized>> ELSE <<>>])
                /\ reg' = [reg EXCEPT ![c].pc = "append"]
                /\ UNCHANGED <<ret, jobsColl>>
    /\ UNCHANGED <<Jobs, jobsMem, crashed>>
    /\ UNCHANGED regFrame
    /\ UNCHANGED threadVars

\* s.cron.AddJob(schedule, joblock) of the call of goroutine c: the entry is
\* installed, or Register returns the error
RegInstall(c) ==
    /\ ~crashed
    /\ reg[c].pc = "install"
    /\ LET j == reg[c].job
       IN  IF AddJobErr(j.Schedule) # NoErr
           THEN /\ reg' = [reg EXCEPT ![c].pc = "returned",
                                      ![c].ret = AddJobErr(j.Schedule)]
                /\ ret' = AddJobErr(j.Schedule)
                /\ UNCHANGED <<entries, mu, stats>>
           ELSE /\ entries' =
                      Append(entries, newJobLock(j, reg[c].storageSpecified))
                /\ mu' = Append(mu, FALSE)
                /\ stats' = Append(stats,
                      [ZeroStats EXCEPT !.writes =
                          IF reg[c].storageSpecified
                          THEN <<JobStatusInitialized>> ELSE <<>>])
                /\ reg' = [reg EXCEPT ![c].pc = "append"]
                /\ UNCHANGED ret
    /\ UNCHANGED <<Jobs, jobsMem, jobsColl, crashed>>
    /\ UNCHANGED regFrame
    /\ UNCHANGED threadVars

\* mutant of RegAppend: the job is put at the head of s.Jobs
RegAppendPrepends(c) ==
    /\ ~crashed
    /\ reg[c].pc = "append"
    /\ Jobs' = <<reg[c].job>> \o Jobs
    /\ jobsMem' = AppendMem(jobsMem, reg[c].job)
    /\ reg' = [reg EXCEPT ![c].pc = "returned", ![c].ret = NoErr]
    /\ ret' = NoErr
    /\ UNCHANGED <<entries, mu, stats, jobsColl, crashed>>
    /\ UNCHANGED regFrame
    /\ UNCHANGED threadVars

\* s.Jobs = append(s.Jobs, j); return nil, when no other call touches s.Jobs
\* in between
RegAppend(c) ==
    /\ ~crashed
    /\ reg[c].pc = "append"
    /\ Jobs' = Append(Jobs, reg[c].job)
    /\ jobsMem' = AppendMem(jobsMem, reg[c].job)
    /\ reg' = [reg EXCEPT ![c].pc = "returned", ![c].ret = NoErr]
    /\ ret' = NoErr
    /\ UNCHANGED <<entries, mu, stats, jobsColl, crashed>>
    /\ UNCHANGED regFrame
    /\ UNCHANGED threadVars

\* Register calls side by side.  Goroutine c calls Register(j): the checks
\* that do not read s.Jobs (51-78)
RegCheck(c, recvNil, j) ==
    /\ ~crashed
    /\ reg[c].pc \in {"idle", "returned"}
    /\ LET verr == ValidateArgs(recvNil, j)
       IN  IF verr # NoErr
           THEN /\ reg' = [reg EXCEPT ![c] =
                      [NoCall EXCEPT !.pc = "returned", !.ret = verr]]
                /\ ret' = verr
           ELSE /\ reg' = [reg EXCEPT ![c] =
                      [NoCall EXCEPT !.pc = "range", !.job = j]]
                /\ UNCHANGED ret
    /\ UNCHANGED <<Jobs, jobsMem, entries, mu, stats, jobsColl, crashed>>
    /\ UNCHANGED regFrame
    /\ UNCHANGED threadVars

\* range s.Jobs (81) and append(s.Jobs, j) (145) load the words of s.Jobs,
\* each with a load of its own, in no fixed order: pointer and length for
\* the loop, the capacity as well for append
RegLoad(c, w) ==
    /\ ~crashed
    /\ \/ reg[c].pc = "range" /\ w \in {"ptr", "len"}
       \/ reg[c].pc = "append" /\ w \in {"ptr", "len", "cap"}
    /\ w \notin reg[c].h.got
    /\ reg' = [reg EXCEPT ![c].h[w] = jobsMem[w],
                          ![c].h.got = @ \cup {w}]
    /\ UNCHANGED <<Jobs, jobsMem, entries, mu, stats, jobsColl, ret, crashed>>
    /\ UNCHANGED regFrame
    /\ UNCHANGED threadVars

\* one iteration of the loop over the slice the call loaded (81-89), or,
\* past its last element, storageSpecified := s.CronStorage != nil (91).
\* The element is loaded from the array as it is now.  With a pointer and a
\* length that do not belong together the load is past the end of the array,
\* or at nil:  zero: the word it finds is zero, else it is no pointer to a
\* Job and reading job.Name faults, as the load at nil does;  recovered: the
\* caller recovers the panic of the fault, else the process dies
RegLoop(c, zero, recovered) ==
    /\ ~crashed
    /\ reg[c].pc = "range"
    /\ reg[c].h.got = {"ptr", "len"}
    /\ LET h == reg[c].h
           k == reg[c].i + 1
           word == Slot(jobsMem, h.ptr, k)
           job == IF word = WildJob THEN NilJob ELSE word
           storageSpecified == NotNil(CronStorage)
           err == NameCheck(<<job>>, 1, reg[c].job)
       IN  IF k > h.len
           THEN /\ reg' = [reg EXCEPT
                      ![c].pc = IF storageSpecified THEN "recv"
                                ELSE "install",
                      ![c].storageSpecified = storageSpecified,
                      ![c].h = NoHdr,
                      ![c].i = 0]
                /\ UNCHANGED <<ret, crashed>>
           ELSE IF h.ptr = 0 \/ (word = WildJob /\ ~zero)
           THEN /\ reg' = [reg EXCEPT ![c].pc = "returned",
                                      ![c].ret = Panicked,
                                      ![c].h = NoHdr, ![c].i = 0]
                /\ ret' = Panicked
                /\ crashed' = ~recovered
           ELSE IF err # NoErr
           THEN /\ reg' = [reg EXCEPT ![c].pc = "returned", ![c].ret = err,
                                      ![c].h = NoHdr, ![c].i = 0]
                /\ ret' = err
                /\ UNCHANGED crashed
           ELSE /\ reg' = [reg EXCEPT ![c].i = k]
                /\ UNCHANGED <<ret, crashed>>
    /\ UNCHANGED <<Jobs, jobsMem, entries, mu, stats, jobsColl>>
    /\ UNCHANGED regFrame
    /\ UNCHANGED threadVars

\* append has loaded s.Jobs: with the capacity used up growslice allocates
\* an array and copies the elements the loaded slice has, as they are now
\* (a copy from nil faults), and append goes on with that array; else the
\* element fits the array in place and append goes on to store the length
RegAppendGrow(c, recovered) ==
    /\ ~crashed
    /\ reg[c].pc = "append"
    /\ reg[c].h.got = {"ptr", "len", "cap"}
    /\ LET h == reg[c].h
       IN  IF h.len + 1 <= h.cap
           THEN /\ reg' = [reg EXCEPT ![c].pc = "storeLen"]
                /\ UNCHANGED <<jobsMem, ret, crashed>>
           ELSE IF h.len > 0 /\ h.ptr = 0
           THEN /\ reg' = [reg EXCEPT ![c].pc = "returned",
                                      ![c].ret = Panicked,
                                      ![c].h = NoHdr]
                /\ ret' = Panicked
                /\ crashed' = ~recovered
                /\ UNCHANGED jobsMem
           ELSE /\ jobsMem' = [jobsMem EXCEPT !.arrs =
                                  Append(@, GrowArray(jobsMem, h))]
                /\ reg' = [reg EXCEPT
                      ![c].pc = "storeCap",
                      ![c].h = [h EXCEPT
                                   !.ptr = Len(jobsMem.arrs) + 1,
                                   !.cap = GrowCap(h.cap, h.len + 1)]]
                /\ UNCHANGED <<ret, crashed>>
    /\ UNCHANGED <<Jobs, entries, mu, stats, jobsColl>>
    /\ UNCHANGED regFrame
    /\ UNCHANGED threadVars

\* append stores the words of s.Jobs, one store each: after growslice the
\* capacity and the pointer of the new array, then, in place as well, the
\* length
RegAppendHeader(c) ==
    /\ ~crashed
    /\ reg[c].pc \in {"storeCap", "storePtr", "storeLen"}
    /\ jobsMem' =
          IF reg[c].pc = "storeCap"
          THEN [jobsMem EXCEPT !.cap = reg[c].h.cap]
          ELSE IF reg[c].pc = "storePtr"
          THEN [jobsMem EXCEPT !.ptr = reg[c].h.ptr]
          ELSE [jobsMem EXCEPT !.len = reg[c].h.len + 1]
    /\ Jobs' = View(jobsMem')
    /\ reg' = [reg EXCEPT ![c].pc =
                  IF reg[c].pc = "storeCap" THEN "storePtr"
                  ELSE IF reg[c].pc = "storePtr" THEN "storeLen"
                  ELSE "storeElem"]
    /\ UNCHANGED <<entries, mu, stats, jobsColl, ret, crashed>>
    /\ UNCHANGED regFrame
    /\ UNCHANGED threadVars

\* append stores j behind the elements of the slice it loaded, in the array
\* it goes on with, and Register returns nil (145-147).  A store in place
\* through a nil pointer faults (recovered: the caller recovers the panic,
\* else the process dies); a store in place past the end of the array
\* overwrites a word of another object (dies: the process ends on it, else
\* it goes on and s.Jobs does not show the element)
RegAppendElem(c, recovered, dies) ==
    /\ ~crashed
    /\ reg[c].pc = "storeElem"
    /\ LET h == reg[c].h
           k == h.len + 1
       IN  IF h.ptr = 0
           THEN /\ reg' = [reg EXCEPT ![c].pc = "returned",
                                      ![c].ret = Panicked,
                                      ![c].h = NoHdr]
                /\ ret' = Panicked
                /\ crashed' = ~recovered
                /\ UNCHANGED jobsMem
           ELSE /\ jobsMem' =
                      IF k > Len(jobsMem.arrs[h.ptr]) THEN jobsMem
                      ELSE [jobsMem EXCEPT !.arrs[h.ptr][k] = reg[c].job]
                /\ reg' = [reg EXCEPT ![c].pc = "returned",
                                      ![c].ret = NoErr,
                                      ![c].h = NoHdr]
                /\ ret' = NoErr
                /\ crashed' = (k > Len(jobsMem.arrs[h.ptr]) /\ dies)
    /\ Jobs' = View(jobsMem')
    /\ UNCHANGED <<entries, mu, stats, jobsColl>>
    /\ UNCHANGED regFrame
    /\ UNCHANGED threadVars

\* the steps of the Register calls of one goroutine, one call after the
\* other; recvs: the receivers (nil or not), jobs: the jobs handed in, oks:
\* the outcomes the `initialized` write may have
Registering(recvs, jobs, oks) ==
    \/ \E recvNil \in recvs, j \in jobs : RegEnter(1, recvNil, j)
    \/ RegLoadStorage(1)
    \/ \E ok \in oks : RegStore(1, ok)
    \/ RegInstall(1)
    \/ RegAppend(1)

\* the steps of the Register calls of one goroutine that hands in valid
\* jobs, each name once, one call after the other, on a scheduler whose
\* `initialized` write succeeds when it reaches a storage and panics when a
\* WithStorage call is half way; recovers: whether the caller recovers from
\* that panic (TRUE), lets it end the process (FALSE), or either
RegisteringOnce(jobs, recovers) ==
    \/ \E j \in jobs :
          /\ \A i \in 1..Len(Jobs) : Jobs[i].Name # j.Name
          /\ RegEnter(1, FALSE, j)
    \/ RegLoadStorage(1)
    \/ RegStore(1, TRUE)
    \/ \E recovered \in recovers : RegStoreNil(1, recovered)
    \/ RegInstall(1)
    \/ RegAppend(1)

(***************************************************************************)
(* A firing: the trigger source calls jobLock.Run of entry e on goroutine  *)
(* t.  pc[t] is                                                            *)
(*   idle      no call in progress                                         *)
(*   Run       Run entered, before j.mu.TryLock()                          *)
(*   skip      TryLock returned false, before the Printf                   *)
(*   locked    TryLock returned true, Unlock deferred, before j.fn()       *)
(*   recvRunning  in fn, before s.CronStorage is loaded for the `running`  *)
(*             status write                                                *)
(*   running   the `running` status write is sent to the storage loaded,   *)
(*             the goroutine waits for it                                  *)
(*   callFunc  before j.Func()                                             *)
(*   inFunc    j.Func() is executing                                       *)
(*   hung      j.Func() is executing and will never return                 *)
(*   hooks     j.Func() returned, before the hooks                         *)
(*   newLog    before newCronExecutionLog reads the wall clock             *)
(*   since     the wall clock is read, before time.Since                   *)
(*   recvExec  the record is built, before s.CronStorage is loaded for     *)
(*             RegisterExecution                                           *)
(*   regExec   RegisterExecution is sent to the storage loaded, the        *)
(*             goroutine waits for it                                      *)
(*   recvDone  before s.CronStorage is loaded for the `done` status write  *)
(*   setDone   the `done` status write is sent to the storage loaded, the  *)
(*             goroutine waits for it                                      *)
(*   unlock    fn returned, before the deferred Unlock                     *)
(*   panic     fn panicked, before the deferred Unlock                     *)
(*   unwind    the panic has left Run; it is recovered further up, or it   *)
(*             ends the process                                            *)
(***************************************************************************)
\* the positions between a successful TryLock and the deferred Unlock
InLock ==
    {"locked", "recvRunning", "running", "callFunc", "inFunc", "hung",
     "hooks", "newLog", "since", "recvExec", "regExec", "recvDone",
     "setDone", "unlock", "panic"}

\* the positions inside the wrapped function fn
InFn == InLock \ {"locked", "unlock", "panic"}

Ev(op, arg) == [op |-> op, arg |-> arg]

\* mutant of Locked: one lock shared by all jobs
LockedAny(e) == \E i \in 1..Len(mu) : mu[i]

\* mutant of Locked: the state of the lock is not looked at
LockedNever(e) == FALSE

\* mutant of Locked: a job whose persisted status is `running` counts as
\* locked
LockedOrStatusRunning(e) ==
    \/ mu[e]
    \/ /\ entries[e].storageSpecified
       /\ \E st \in Storages :
             jobsColl[st][entries[e].name].status = JobStatusRunning

\* sync.Mutex: the state TryLock reads for entry e
Locked(e) == mu[e]

Fire(t, e) ==
    /\ ~crashed
    /\ UNCHANGED trecv
    /\ UNCHANGED libVars
    /\ tstart' = [tstart EXCEPT ![t] = NoTime]
    /\ tmono' = [tmono EXCEPT ![t] = NoTime]
    /\ tfin' = [tfin EXCEPT ![t] = NoTime]
    /\ tdur' = [tdur EXCEPT ![t] = NoTime]
    /\ cronRunning
    /\ nFires < MaxFires
    /\ pc[t] = "idle"
    /\ e \in 1..Len(entries)
    /\ pc' = [pc EXCEPT ![t] = "Run"]
    /\ tjob' = [tjob EXCEPT ![t] = e]
    /\ terr' = [terr EXCEPT ![t] = NoErr]
    /\ terrors' = [terrors EXCEPT ![t] = <<>>]
    /\ tlog' = [tlog EXCEPT ![t] = <<>>]
    /\ stats' = [stats EXCEPT ![e].fired = @ + 1]
    /\ nFires' = nFires + 1
    /\ UNCHANGED <<mu, crashed, cronRunning>>
    /\ UNCHANGED schedVars
    /\ UNCHANGED storeVars

\* mutant of TryLock: Lock() instead of TryLock(), the goroutine waits
TryLockBlocking(t) ==
    /\ ~crashed
    /\ UNCHANGED trecv
    /\ UNCHANGED libVars
    /\ UNCHANGED timeVars
    /\ pc[t] = "Run"
    /\ ~Locked(tjob[t])
    /\ mu' = [mu EXCEPT ![tjob[t]] = TRUE]
    /\ pc' = [pc EXCEPT ![t] = "locked"]
    /\ stats' = [stats EXCEPT ![tjob[t]].acquired = @ + 1]
    /\ UNCHANGED <<tjob, terr, terrors, tlog, nFires, crashed, cronRunning>>
    /\ UNCHANGED schedVars
    /\ UNCHANGED storeVars

\* mutant of TryLock: the result of TryLock() is ignored
TryLockAlways(t) ==
    /\ ~crashed
    /\ UNCHANGED trecv
    /\ UNCHANGED libVars
    /\ UNCHANGED timeVars
    /\ pc[t] = "Run"
    /\ mu' = [mu EXCEPT ![tjob[t]] = TRUE]
    /\ pc' = [pc EXCEPT ![t] = "locked"]
    /\ stats' = [stats EXCEPT ![tjob[t]].acquired = @ + 1]
    /\ UNCHANGED <<tjob, terr, terrors, tlog, nFires, crashed, cronRunning>>
    /\ UNCHANGED schedVars
    /\ UNCHANGED storeVars

\* if j.mu.TryLock() { defer j.mu.Unlock(); ... } else { ... }
TryLock(t) ==
    /\ ~crashed
    /\ UNCHANGED trecv
    /\ UNCHANGED libVars
    /\ UNCHANGED timeVars
    /\ pc[t] = "Run"
    /\ LET e == tjob[t]
       IN  IF Locked(e)
           THEN /\ pc' = [pc EXCEPT ![t] = "skip"]
                /\ UNCHANGED <<mu, stats>>
           ELSE /\ mu' = [mu EXCEPT ![e] = TRUE]
                /\ pc' = [pc EXCEPT ![t] = "locked"]
                /\ stats' = [stats EXCEPT ![e].acquired = @ + 1]
    /\ UNCHANGED <<tjob, terr, terrors, tlog, nFires, crashed, cronRunning>>
    /\ UNCHANGED schedVars
    /\ UNCHANGED storeVars

\* mutant of Skip: after the Printf the function is run all the same
SkipThenRun(t) ==
    /\ ~crashed
    /\ UNCHANGED trecv
    /\ UNCHANGED libVars
    /\ UNCHANGED timeVars
    /\ pc[t] = "skip"
    /\ pc' = [pc EXCEPT ![t] = "locked"]
    /\ tlog' = [tlog EXCEPT ![t] = Append(@, Ev("skip", entries[tjob[t]].name))]
    /\ stats' = [stats EXCEPT ![tjob[t]].skips = @ + 1]
    /\ UNCHANGED <<mu, tjob, terr, terrors, nFires, crashed, cronRunning>>
    /\ UNCHANGED schedVars
    /\ UNCHANGED storeVars

\* fmt.Printf("job %v already running. Skipping...\n", j.name); Run returns
Skip(t) ==
    /\ ~crashed
    /\ UNCHANGED trecv
    /\ UNCHANGED libVars
    /\ UNCHANGED timeVars
    /\ pc[t] = "skip"
    /\ pc' = [pc EXCEPT ![t] = "idle"]
    /\ tlog' = [tlog EXCEPT ![t] = Append(@, Ev("skip", entries[tjob[t]].name))]
    /\ stats' = [stats EXCEPT ![tjob[t]].skips = @ + 1]
    /\ UNCHANGED <<mu, tjob, terr, terrors, nFires, crashed, cronRunning>>
    /\ UNCHANGED schedVars
    /\ UNCHANGED storeVars

\* mutant of JobStart: Unlock is called at once instead of being deferred
JobStartUnlocked(t) ==
    /\ ~crashed
    /\ UNCHANGED trecv
    /\ UNCHANGED tdur
    /\ UNCHANGED libVars
    /\ tstart' = [tstart EXCEPT ![t] = wall]
    /\ tmono' = [tmono EXCEPT ![t] = clock]
    /\ UNCHANGED tfin
    /\ pc[t] = "locked"
    /\ pc' = [pc EXCEPT ![t] =
                IF entries[tjob[t]].storageSpecified THEN "recvRunning"
                ELSE "callFunc"]
    /\ terrors' = [terrors EXCEPT ![t] = <<>>]
    /\ stats' = [stats EXCEPT ![tjob[t]].started = @ + 1]
    /\ mu' = [mu EXCEPT ![tjob[t]] = FALSE]
    /\ UNCHANGED <<tjob, terr, tlog, nFires, crashed, cronRunning>>
    /\ UNCHANGED schedVars
    /\ UNCHANGED storeVars

\* mutant of JobStart: the `running` status write is left out
JobStartNoRunningWrite(t) ==
    /\ ~crashed
    /\ UNCHANGED trecv
    /\ UNCHANGED tdur
    /\ UNCHANGED libVars
    /\ tstart' = [tstart EXCEPT ![t] = wall]
    /\ tmono' = [tmono EXCEPT ![t] = clock]
    /\ UNCHANGED tfin
    /\ pc[t] = "locked"
    /\ pc' = [pc EXCEPT ![t] = "callFunc"]
    /\ terrors' = [terrors EXCEPT ![t] = <<>>]
    /\ stats' = [stats EXCEPT ![tjob[t]].started = @ + 1]
    /\ UNCHANGED <<mu, tjob, terr, tlog, nFires, crashed, cronRunning>>
    /\ UNCHANGED schedVars
    /\ UNCHANGED storeVars

\* mutant of JobStart: the closure looks at s.CronStorage when it runs, not
\* at what Register saw
JobStartReadsStorage(t) ==
    /\ ~crashed
    /\ UNCHANGED trecv
    /\ UNCHANGED tdur
    /\ UNCHANGED libVars
    /\ tstart' = [tstart EXCEPT ![t] = wall]
    /\ tmono' = [tmono EXCEPT ![t] = clock]
    /\ UNCHANGED tfin
    /\ pc[t] = "locked"
    /\ pc' = [pc EXCEPT ![t] =
                IF NotNil(CronStorage) THEN "recvRunning"
                ELSE "callFunc"]
    /\ terrors' = [terrors EXCEPT ![t] = <<>>]
    /\ stats' = [stats EXCEPT ![tjob[t]].started = @ + 1]
    /\ UNCHANGED <<mu, tjob, terr, tlog, nFires, crashed, cronRunning>>
    /\ UNCHANGED schedVars
    /\ UNCHANGED storeVars

\* j.fn() is entered: jobStart := time.Now(); errors := NewErrGroup()
\* (part_003 105-107; the closure of syro.cron.go is entered by SyroJobStart)
JobStart(t) ==
    /\ ~crashed
    /\ UNCHANGED trecv
    /\ UNCHANGED tdur
    /\ UNCHANGED libVars
    /\ tstart' = [tstart EXCEPT ![t] = wall]
    /\ tmono' = [tmono EXCEPT ![t] = clock]
    /\ UNCHANGED tfin
    /\ pc[t] = "locked"
    /\ pc' = [pc EXCEPT ![t] =
                IF entries[tjob[t]].storageSpecified THEN "recvRunning"
                ELSE "callFunc"]
    /\ terrors' = [terrors EXCEPT ![t] = <<>>]
    /\ stats' = [stats EXCEPT ![tjob[t]].started = @ + 1]
    /\ UNCHANGED <<mu, tjob, terr, tlog, nFires, crashed, cronRunning>>
    /\ UNCHANGED schedVars
    /\ UNCHANGED storeVars

\* mutant of SetRunning: the closure returns when the `running` write fails
SetRunningOrReturn(t, ok) ==
    /\ ~crashed
    /\ UNCHANGED libVars
    /\ UNCHANGED timeVars
    /\ pc[t] = "running"
    /\ trecv' = [trecv EXCEPT ![t] = "nil"]
    /\ LET l == entries[tjob[t]]
       IN  /\ jobsColl' =
                 IF ok
                 THEN [jobsColl EXCEPT ![trecv[t]] =
                          RegisterJob(@, l.name, l.schedule, l.descr,
                                  JobStatusRunning, NoErr)]
                 ELSE jobsColl
           /\ terrors' = [terrors EXCEPT ![t] =
                 ErrGroupAdd(@, IF ok THEN NoErr
                                ELSE "failed to set job " \o l.name
                                     \o " to running: " \o StorageErr)]
    /\ tlog' = [tlog EXCEPT ![t] = Append(@, Ev("status", JobStatusRunning))]
    /\ stats' = [stats EXCEPT ![tjob[t]].writes = Append(@, JobStatusRunning)]
    /\ pc' = [pc EXCEPT ![t] = IF ok THEN "callFunc" ELSE "unlock"]
    /\ UNCHANGED <<mu, tjob, terr, nFires, histColl, crashed, cronRunning>>
    /\ UNCHANGED schedVars

\* RegisterJob(..., JobStatusRunning, nil), sent to the storage the closure
\* loaded (part_003 110), is applied there, or fails, and returns; ok: it
\* succeeds
SetRunning(t, ok) ==
    /\ ~crashed
    /\ UNCHANGED libVars
    /\ UNCHANGED timeVars
    /\ pc[t] = "running"
    /\ trecv' = [trecv EXCEPT ![t] = "nil"]
    /\ LET l == entries[tjob[t]]
       IN  /\ jobsColl' =
                 IF ok
                 THEN [jobsColl EXCEPT ![trecv[t]] =
                          RegisterJob(@, l.name, l.schedule, l.descr,
                                  JobStatusRunning, NoErr)]
                 ELSE jobsColl
           /\ terrors' = [terrors EXCEPT ![t] =
                 ErrGroupAdd(@, IF ok THEN NoErr
                                ELSE "failed to set job " \o l.name
                                     \o " to running: " \o StorageErr)]
    /\ tlog' = [tlog EXCEPT ![t] = Append(@, Ev("status", JobStatusRunning))]
    /\ stats' = [stats EXCEPT ![tjob[t]].writes = Append(@, JobStatusRunning),
                              ![tjob[t]].runningAt = clock]
    /\ pc' = [pc EXCEPT ![t] = "callFunc"]
    /\ UNCHANGED <<mu, tjob, terr, nFires, histColl, crashed, cronRunning>>
    /\ UNCHANGED schedVars

\* err := j.Func() is called
CallFunc(t) ==
    /\ ~crashed
    /\ UNCHANGED trecv
    /\ UNCHANGED libVars
    /\ UNCHANGED timeVars
    /\ pc[t] = "callFunc"
    /\ pc' = [pc EXCEPT ![t] = "inFunc"]
    /\ tlog' = [tlog EXCEPT ![t] = Append(@, Ev("Func", ""))]
    /\ stats' = [stats EXCEPT ![tjob[t]].execs = @ + 1]
    /\ UNCHANGED <<mu, tjob, terr, terrors, nFires, crashed, cronRunning>>
    /\ UNCHANGED schedVars
    /\ UNCHANGED storeVars

\* j.Func() returns err
FuncReturn(t, err) ==
    /\ ~crashed
    /\ UNCHANGED trecv
    /\ UNCHANGED libVars
    /\ UNCHANGED timeVars
    /\ pc[t] = "inFunc"
    /\ terr' = [terr EXCEPT ![t] = err]
    /\ pc' = [pc EXCEPT ![t] = "hooks"]
    /\ UNCHANGED <<mu, tjob, terrors, tlog, stats, nFires, crashed,
                   cronRunning>>
    /\ UNCHANGED schedVars
    /\ UNCHANGED storeVars

\* j.Func() panics
FuncPanic(t) ==
    /\ ~crashed
    /\ UNCHANGED trecv
    /\ UNCHANGED libVars
    /\ UNCHANGED timeVars
    /\ pc[t] = "inFunc"
    /\ pc' = [pc EXCEPT ![t] = "panic"]
    /\ tlog' = [tlog EXCEPT ![t] = Append(@, Ev("panic", ""))]
    /\ stats' = [stats EXCEPT ![tjob[t]].lastEnd = "panic"]
    /\ UNCHANGED <<mu, tjob, terr, terrors, nFires, crashed, cronRunning>>
    /\ UNCHANGED schedVars
    /\ UNCHANGED storeVars

\* j.Func() blocks or loops for ever
FuncHang(t) ==
    /\ ~crashed
    /\ UNCHANGED trecv
    /\ UNCHANGED libVars
    /\ UNCHANGED timeVars
    /\ pc[t] = "inFunc"
    /\ pc' = [pc EXCEPT ![t] = "hung"]
    /\ UNCHANGED <<mu, tjob, terr, terrors, tlog, stats, nFires, crashed,
                   cronRunning>>
    /\ UNCHANGED schedVars
    /\ UNCHANGED storeVars

\* mutant of HookEvents: OnError is called without looking at err
HookEventsErrorAlways(j, err) ==
    (IF j.OnComplete THEN <<Ev("OnComplete", err)>> ELSE <<>>)
    \o (IF j.OnError THEN <<Ev("OnError", err)>> ELSE <<>>)

\* the events of the hooks: OnComplete(err) if set, then OnError(err) if set
\* and err is not nil
HookEvents(j, err) ==
    (IF j.OnComplete THEN <<Ev("OnComplete", err)>> ELSE <<>>)
    \o (IF err # NoErr /\ j.OnError THEN <<Ev("OnError", err)>> ELSE <<>>)

\* the hooks of the run, part_003 118-124
Hooks(t) ==
    /\ ~crashed
    /\ UNCHANGED trecv
    /\ UNCHANGED libVars
    /\ UNCHANGED timeVars
    /\ pc[t] = "hooks"
    /\ tlog' = [tlog EXCEPT ![t] = @ \o HookEvents(entries[tjob[t]].job, terr[t])]
    /\ pc' = [pc EXCEPT ![t] =
                IF entries[tjob[t]].storageSpecified THEN "newLog"
                ELSE "unlock"]
    /\ UNCHANGED <<mu, tjob, terr, terrors, stats, nFires, crashed,
                   cronRunning>>
    /\ UNCHANGED schedVars
    /\ UNCHANGED storeVars

\* newCronExecutionLog is entered: FinishedAt: time.Now().UTC() (part_003
\* 210)
NewLog(t) ==
    /\ ~crashed
    /\ UNCHANGED trecv
    /\ UNCHANGED tdur
    /\ UNCHANGED libVars
    /\ pc[t] = "newLog"
    /\ tfin' = [tfin EXCEPT ![t] = wall]
    /\ pc' = [pc EXCEPT ![t] = "since"]
    /\ UNCHANGED <<tstart, tmono>>
    /\ UNCHANGED <<mu, tjob, terr, terrors, tlog, stats, nFires, crashed,
                   cronRunning>>
    /\ UNCHANGED schedVars
    /\ UNCHANGED storeVars

\* ExecutionTime: time.Since(initializedAt) (part_003 211): the time that
\* has passed on the monotonic clock when the record is built, before the
\* call that inserts it is made
Since(t) ==
    /\ ~crashed
    /\ UNCHANGED trecv
    /\ UNCHANGED libVars
    /\ pc[t] = "since"
    /\ tdur' = [tdur EXCEPT ![t] = clock - tmono[t]]
    /\ pc' = [pc EXCEPT ![t] = "recvExec"]
    /\ UNCHANGED <<tstart, tmono, tfin>>
    /\ UNCHANGED <<mu, tjob, terr, terrors, tlog, stats, nFires, crashed,
                   cronRunning>>
    /\ UNCHANGED schedVars
    /\ UNCHANGED storeVars

\* the positions where the closure is about to load s.CronStorage for a
\* call (part_003 110, 127, 131), and the position of each where the call
\* has been sent and the goroutine waits for the storage
RecvPos == {"recvRunning", "recvExec", "recvDone"}
SentPos(p) ==
    IF p = "recvRunning" THEN "running"
    ELSE IF p = "recvExec" THEN "regExec"
    ELSE "setDone"

\* the closure loads s.CronStorage, finds both words, and calls RegisterJob
\* or RegisterExecution on what it loaded: the request is on its way and the
\* goroutine waits for the answer; what WithStorage does from here on does
\* not reach this call.  The argument of RegisterExecution, the record, is
\* built before s.CronStorage is loaded for the call: the compiler lets the
\* function call in the argument run before it reads the variable that
\* holds the receiver.  The two words are
\* loaded in one step: a pair a reader finds loading them one after the
\* other is the content of s.CronStorage at some moment of some order of
\* the stores in between.
LoadStorage(t) ==
    /\ ~crashed
    /\ UNCHANGED libVars
    /\ UNCHANGED timeVars
    /\ pc[t] \in RecvPos
    /\ Receiver(CronStorage) # "nil"
    /\ trecv' = [trecv EXCEPT ![t] = Receiver(CronStorage)]
    /\ pc' = [pc EXCEPT ![t] = SentPos(pc[t])]
    /\ UNCHANGED <<mu, tjob, terr, terrors, tlog, stats, nFires, crashed,
                   cronRunning>>
    /\ UNCHANGED schedVars
    /\ UNCHANGED storeVars

\* a word of s.CronStorage is nil when the closure loads it to call
\* RegisterJob or RegisterExecution: a nil pointer dereference before
\* anything is sent, the closure panics
NilStorage(t) ==
    /\ ~crashed
    /\ UNCHANGED trecv
    /\ UNCHANGED libVars
    /\ UNCHANGED timeVars
    /\ pc[t] \in RecvPos
    /\ Receiver(CronStorage) = "nil"
    /\ pc' = [pc EXCEPT ![t] = "panic"]
    /\ tlog' = [tlog EXCEPT ![t] = Append(@, Ev("panic", ""))]
    /\ stats' = [stats EXCEPT ![tjob[t]].lastEnd = "panic"]
    /\ UNCHANGED <<mu, tjob, terr, terrors, nFires, crashed, cronRunning>>
    /\ UNCHANGED schedVars
    /\ UNCHANGED storeVars

\* mutant of RegExec: the closure returns when the record write fails
RegExecOrReturn(t, ok) ==
    /\ ~crashed
    /\ UNCHANGED libVars
    /\ UNCHANGED timeVars
    /\ pc[t] = "regExec"
    /\ trecv' = [trecv EXCEPT ![t] = "nil"]
    /\ LET l == entries[tjob[t]]
       IN  /\ histColl' =
                 IF ok
                 THEN [histColl EXCEPT ![trecv[t]] =
                          RegisterExecution(@,
                          newCronExecutionLog(l.source, l.name, tstart[t],
                                              terr[t], tfin[t],
                                              tdur[t]))]
                 ELSE histColl
           /\ terrors' = [terrors EXCEPT ![t] =
                 ErrGroupAdd(@, IF ok THEN NoErr
                                ELSE "failed to register execution for "
                                     \o l.name \o ": " \o StorageErr)]
    /\ tlog' = [tlog EXCEPT ![t] = Append(@, Ev("execution", terr[t]))]
    /\ pc' = [pc EXCEPT ![t] = IF ok THEN "recvDone" ELSE "unlock"]
    /\ UNCHANGED <<mu, tjob, terr, stats, nFires, jobsColl, crashed,
                   cronRunning>>
    /\ UNCHANGED schedVars

\* RegisterExecution of the record built before the call, sent to the
\* storage the closure loaded (part_003 127), is applied there, or fails,
\* and returns; ok: it succeeds
RegExec(t, ok) ==
    /\ ~crashed
    /\ UNCHANGED libVars
    /\ UNCHANGED timeVars
    /\ pc[t] = "regExec"
    /\ trecv' = [trecv EXCEPT ![t] = "nil"]
    /\ LET l == entries[tjob[t]]
       IN  /\ histColl' =
                 IF ok
                 THEN [histColl EXCEPT ![trecv[t]] =
                          RegisterExecution(@,
                          newCronExecutionLog(l.source, l.name, tstart[t],
                                              terr[t], tfin[t], tdur[t]))]
                 ELSE histColl
           /\ terrors' = [terrors EXCEPT ![t] =
                 ErrGroupAdd(@, IF ok THEN NoErr
                                ELSE "failed to register execution for "
                                     \o l.name \o ": " \o StorageErr)]
    /\ tlog' = [tlog EXCEPT ![t] = Append(@, Ev("execution", terr[t]))]
    /\ pc' = [pc EXCEPT ![t] = "recvDone"]
    /\ UNCHANGED <<mu, tjob, terr, stats, nFires, jobsColl, crashed,
                   cronRunning>>
    /\ UNCHANGED schedVars

\* mutant of SetDone: a job whose run failed is marked inactive
SetDoneInactive(t, ok) ==
    /\ ~crashed
    /\ UNCHANGED libVars
    /\ UNCHANGED timeVars
    /\ pc[t] = "setDone"
    /\ trecv' = [trecv EXCEPT ![t] = "nil"]
    /\ LET l == entries[tjob[t]]
           status == IF terr[t] # NoErr THEN JobStatusInactive
                     ELSE JobStatusDone
       IN  /\ jobsColl' =
                 IF ok
                 THEN [jobsColl EXCEPT ![trecv[t]] =
                          RegisterJob(@, l.name, l.schedule, l.descr,
                                  status, terr[t])]
                 ELSE jobsColl
           /\ terrors' = [terrors EXCEPT ![t] =
                 ErrGroupAdd(@, IF ok THEN NoErr
                                ELSE "failed to set job " \o l.name
                                     \o " to done: " \o StorageErr)]
           /\ tlog' = [tlog EXCEPT ![t] = Append(@, Ev("status", status))]
           /\ stats' = [stats EXCEPT ![tjob[t]].writes = Append(@, status)]
    /\ pc' = [pc EXCEPT ![t] = "unlock"]
    /\ UNCHANGED <<mu, tjob, terr, nFires, histColl, crashed, cronRunning>>
    /\ UNCHANGED schedVars

\* RegisterJob(..., JobStatusDone, err), sent to the storage the closure
\* loaded (part_003 131), is applied there, or fails, and returns; ok: it
\* succeeds
SetDone(t, ok) ==
    /\ ~crashed
    /\ UNCHANGED libVars
    /\ UNCHANGED timeVars
    /\ pc[t] = "setDone"
    /\ trecv' = [trecv EXCEPT ![t] = "nil"]
    /\ LET l == entries[tjob[t]]
       IN  /\ jobsColl' =
                 IF ok
                 THEN [jobsColl EXCEPT ![trecv[t]] =
                          RegisterJob(@, l.name, l.schedule, l.descr,
                                  JobStatusDone, terr[t])]
                 ELSE jobsColl
           /\ terrors' = [terrors EXCEPT ![t] =
                 ErrGroupAdd(@, IF ok THEN NoErr
                                ELSE "failed to set job " \o l.name
                                     \o " to done: " \o StorageErr)]
    /\ tlog' = [tlog EXCEPT ![t] = Append(@, Ev("status", JobStatusDone))]
    /\ stats' = [stats EXCEPT ![tjob[t]].writes = Append(@, JobStatusDone),
                              ![tjob[t]].lastEnd = IF ok THEN "done"
                                                   ELSE "doneFailed"]
    /\ pc' = [pc EXCEPT ![t] = "unlock"]
    /\ UNCHANGED <<mu, tjob, terr, nFires, histColl, crashed, cronRunning>>
    /\ UNCHANGED schedVars

\* fn returned: the deferred j.mu.Unlock() runs and Run returns
Unlock(t) ==
    /\ ~crashed
    /\ UNCHANGED trecv
    /\ UNCHANGED libVars
    /\ UNCHANGED timeVars
    /\ pc[t] = "unlock"
    /\ mu' = [mu EXCEPT ![tjob[t]] = FALSE]
    /\ pc' = [pc EXCEPT ![t] = "idle"]
    /\ stats' = [stats EXCEPT ![tjob[t]].returned = @ + 1]
    /\ UNCHANGED <<tjob, terr, terrors, tlog, nFires, crashed, cronRunning>>
    /\ UNCHANGED schedVars
    /\ UNCHANGED storeVars

\* mutant of PanicUnlock: Unlock follows j.fn() without defer, a panic skips it
PanicNoUnlock(t) ==
    /\ ~crashed
    /\ UNCHANGED trecv
    /\ UNCHANGED libVars
    /\ UNCHANGED timeVars
    /\ pc[t] = "panic"
    /\ pc' = [pc EXCEPT ![t] = "unwind"]
    /\ stats' = [stats EXCEPT ![tjob[t]].returned = @ + 1]
    /\ UNCHANGED <<mu, tjob, terr, terrors, tlog, nFires, crashed, cronRunning>>
    /\ UNCHANGED schedVars
    /\ UNCHANGED storeVars

\* fn panicked: the deferred j.mu.Unlock() runs and the panic leaves Run,
\* on its way up the stack of the goroutine
PanicUnlock(t) ==
    /\ ~crashed
    /\ UNCHANGED trecv
    /\ UNCHANGED libVars
    /\ UNCHANGED timeVars
    /\ pc[t] = "panic"
    /\ mu' = [mu EXCEPT ![tjob[t]] = FALSE]
    /\ pc' = [pc EXCEPT ![t] = "unwind"]
    /\ stats' = [stats EXCEPT ![tjob[t]].returned = @ + 1]
    /\ UNCHANGED <<tjob, terr, terrors, tlog, nFires, crashed, cronRunning>>
    /\ UNCHANGED schedVars
    /\ UNCHANGED storeVars

\* the panic has left Run.  recovered: a wrapper of the cron chain recovers
\* it (cron.Recover) and the goroutine ends; else it reaches the top of the
\* goroutine and the runtime ends the process.  The other goroutines run
\* until then.
PanicEnd(t, recovered) ==
    /\ ~crashed
    /\ UNCHANGED trecv
    /\ UNCHANGED libVars
    /\ UNCHANGED timeVars
    /\ pc[t] = "unwind"
    /\ pc' = [pc EXCEPT ![t] = "idle"]
    /\ crashed' = ~recovered
    /\ UNCHANGED <<mu, tjob, terr, terrors, tlog, stats, nFires, cronRunning>>
    /\ UNCHANGED schedVars
    /\ UNCHANGED storeVars

\* the jobs the execution specification registers: valid ones, "a" with both
\* hooks and "A" with none
ValidJobs ==
    {j \in [isNil : {FALSE}, Name : JobNames \ {""}, Schedule : {"@every 1s"},
            Func : {TRUE}, Description : {"d"}, OnError : BOOLEAN,
            OnComplete : BOOLEAN] :
        /\ j.OnError = j.OnComplete
        /\ j.OnError = (j.Name = "a")}

\* the steps of the firings; oks: the outcomes the storage calls may have.
\* The trigger source starts a goroutine of its own for every firing, so the
\* goroutines are numbered in the order of the firings.
Firing(oks) ==
    \/ \E t \in Threads, e \in 1..Cardinality(JobNames) :
          t = nFires + 1 /\ Fire(t, e)
    \/ \E t \in Threads : TryLock(t)
    \/ \E t \in Threads : Skip(t)
    \/ \E t \in Threads : JobStart(t)
    \/ \E t \in Threads : LoadStorage(t)
    \/ \E t \in Threads, ok \in oks : SetRunning(t, ok)
    \/ \E t \in Threads : CallFunc(t)
    \/ \E t \in Threads, err \in {NoErr} \cup FuncErrs : FuncReturn(t, err)
    \/ \E t \in Threads : FuncPanic(t)
    \/ \E t \in Threads : FuncHang(t)
    \/ \E t \in Threads : Hooks(t)
    \/ \E t \in Threads : NewLog(t)
    \/ \E t \in Threads : Since(t)
    \/ \E t \in Threads, ok \in oks : RegExec(t, ok)
    \/ \E t \in Threads, ok \in oks : SetDone(t, ok)
    \/ \E t \in Threads : Unlock(t)
    \/ \E t \in Threads : PanicUnlock(t)
    \/ \E t \in Threads, recovered \in BOOLEAN : PanicEnd(t, recovered)

\* The execution specification: valid jobs are registered by one goroutine,
\* each once, before or after the storage is attached, before or after
\* Start, and fire on MaxThreads goroutines while that goes on; the storage
\* calls succeed.
Next ==
    \/ AttachingOnce
    \/ Start
    \/ RegisteringOnce(ValidJobs, BOOLEAN)
    \/ Firing({TRUE})

Spec == Init /\ [][Next]_vars

\* the jobs handed to Register in the registration specification: nil, and
\* every combination of name, schedule and work function, without hooks
RegisterInputs == {j \in JobInputs : ~j.OnError /\ ~j.OnComplete}

\* The registration specification: Register is called with every input, on
\* the scheduler or on nil, one call after the other, with the storage call
\* succeeding or failing; WithStorage and Start are called at any moment.
NextRegister ==
    \/ Attaching({"nil", "storage"})
    \/ Start
    \/ Registering(BOOLEAN, RegisterInputs, BOOLEAN)
    \/ \E recovered \in BOOLEAN : RegStoreNil(1, recovered)

SpecRegister == Init /\ [][NextRegister]_vars

\* the jobs the goroutines register side by side
ConcJobs ==
    [isNil : {FALSE}, Name : {"a", "A"}, Schedule : {"@every 1s", "bad"},
     Func : {TRUE}, Description : {"d"}, OnError : {FALSE},
     OnComplete : {FALSE}]

\* The concurrent registration specification: each goroutine calls Register
\* once, the calls interleave, with or without storage.
NextConc ==
    \/ Attaching({"nil", "storage"})
    \/ \E c \in Threads, j \in ConcJobs :
          reg[c].pc = "idle" /\ RegCheck(c, FALSE, j)
    \/ \E c \in Threads, w \in {"ptr", "len", "cap"} : RegLoad(c, w)
    \/ \E c \in Threads, zero \in BOOLEAN, recovered \in BOOLEAN :
          RegLoop(c, zero, recovered)
    \/ \E c \in Threads : RegLoadStorage(c)
    \/ \E c \in Threads, ok \in BOOLEAN : RegStore(c, ok)
    \/ \E c \in Threads, recovered \in BOOLEAN : RegStoreNil(c, recovered)
    \/ \E c \in Threads : RegInstall(c)
    \/ \E c \in Threads, recovered \in BOOLEAN : RegAppendGrow(c, recovered)
    \/ \E c \in Threads : RegAppendHeader(c)
    \/ \E c \in Threads, recovered \in BOOLEAN, dies \in BOOLEAN :
          RegAppendElem(c, recovered, dies)

SpecConc == Init /\ [][NextConc]_vars

\* the jobs the run specification registers: valid ones named "a", with every
\* combination of hooks
RunJobs ==
    [isNil : {FALSE}, Name : {"a"}, Schedule : {"@every 1s"}, Func : {TRUE},
     Description : {"d"}, OnError : BOOLEAN, OnComplete : BOOLEAN]

\* a storage call of the run of goroutine t may fail in the run
\* specification: fewer than MaxFailingRuns other runs had one that failed
MayFail(t) ==
    Cardinality({u \in Threads \ {t} : terrors[u] # <<>>}) < MaxFailingRuns

\* The run specification: one job, with any hooks, is registered before or
\* after the storage is attached, or while it is being attached, and fires
\* on MaxThreads goroutines; the storage calls of a run succeed or fail, each
\* on its own, in MaxFailingRuns runs, and succeed in the others.
\* A Register call that panics on the half attached storage is not
\* recovered here: the process ends with it.
NextRun ==
    \/ AttachingOnce
    \/ Start
    \/ RegisteringOnce(RunJobs, {FALSE})
    \/ Firing({TRUE})
    \/ \E t \in Threads : MayFail(t) /\ SetRunning(t, FALSE)
    \/ \E t \in Threads : MayFail(t) /\ RegExec(t, FALSE)
    \/ \E t \in Threads : MayFail(t) /\ SetDone(t, FALSE)

SpecRun == Init /\ [][NextRun]_vars

\* time passes: both clocks advance
Tick ==
    /\ ~crashed
    /\ clock < MaxTime
    /\ wall < MaxTime
    /\ clock' = clock + 1
    /\ wall' = wall + 1
    /\ UNCHANGED <<cronListColl, docHist, errGroup, egAdded>>
    /\ UNCHANGED timeVars
    /\ UNCHANGED apiVars
    /\ UNCHANGED <<mu, stats, nFires, crashed, cronRunning>>
    /\ UNCHANGED schedVars
    /\ UNCHANGED threadVars
    /\ UNCHANGED storeVars

\* the wall clock is set to w (by NTP, by hand), forward or back; the
\* monotonic clock is not touched
SetWall(w) ==
    /\ ~crashed
    /\ w # wall
    /\ wall' = w
    /\ UNCHANGED <<clock, cronListColl, docHist, errGroup, egAdded>>
    /\ UNCHANGED timeVars
    /\ UNCHANGED apiVars
    /\ UNCHANGED <<mu, stats, nFires, crashed, cronRunning>>
    /\ UNCHANGED schedVars
    /\ UNCHANGED threadVars
    /\ UNCHANGED storeVars

\* the job the time specification registers
TimeJobs ==
    [isNil : {FALSE}, Name : {"a"}, Schedule : {"@every 1s"}, Func : {TRUE},
     Description : {"d"}, OnError : {TRUE}, OnComplete : {TRUE}]

\* The time specification: one job is registered before or after the
\* storage is attached and fires on one goroutine, one run after the other,
\* while time passes and the wall clock is set back between the steps; the
\* work function returns, the `running` write succeeds or fails.
NextTime ==
    \/ AttachingOnce
    \/ Start
    \/ RegisteringOnce(TimeJobs, BOOLEAN)
    \/ Tick
    \/ SetWall(1)
    \/ Fire(1, 1)
    \/ TryLock(1)
    \/ JobStart(1)
    \/ LoadStorage(1)
    \/ \E ok \in BOOLEAN : SetRunning(1, ok)
    \/ CallFunc(1)
    \/ FuncReturn(1, NoErr)
    \/ Hooks(1)
    \/ NewLog(1)
    \/ Since(1)
    \/ RegExec(1, TRUE)
    \/ SetDone(1, TRUE)
    \/ Unlock(1)

SpecTime == Init /\ [][NextTime]_vars

(***************************************************************************)
(* The copy of the scheduler in syro.cron.go.  Its Job has Freq for the    *)
(* schedule and the hooks PostExecution, OnError and OnSuccess; Register   *)
(* has no check of the receiver and skips nil elements of s.Jobs; and its  *)
(* closure issues the `running` write first and reads the start of the run *)
(* after it.  The `initialized` write, AddJob, append, the record, the     *)
(* `done` write and jobLock.Run are those of the other copy.  A job of     *)
(* this copy is a record with Schedule for Freq and OnComplete for         *)
(* PostExecution, and the field OnSuccess.  A run of this copy is, between *)
(* the `running` write and the work function, at                           *)
(*   now       before now := time.Now()                                    *)
(***************************************************************************)
\* Register of syro.cron.go: the checks, in the order of the code
SyroValidate(j) ==
    IF j.isNil THEN "job cannot be nil"
    ELSE IF cron = "nil" THEN "cron cannot be nil"
    ELSE IF j.Schedule = "" THEN "frequency has to be specified"
    ELSE IF j.Name = "" THEN "name has to be specified"
    ELSE IF ~j.Func THEN "job function cannot be nil"
    ELSE IF \E i \in 1..Len(Jobs) : ~Jobs[i].isNil /\ Jobs[i].Name = j.Name
    THEN "job with name " \o j.Name \o " already exists"
    ELSE NoErr

\* goroutine c calls Register(j) of syro.cron.go: the checks, and
\* storageIsSpecified := s.CronStorage != nil
SyroRegEnter(c, j) ==
    /\ ~crashed
    /\ reg[c].pc \in {"idle", "returned"}
    /\ LET verr == SyroValidate(j)
           storageSpecified == NotNil(CronStorage)
       IN  IF verr # NoErr
           THEN /\ reg' = [reg EXCEPT ![c] =
                      [NoCall EXCEPT !.pc = "returned", !.ret = verr]]
                /\ ret' = verr
           ELSE /\ reg' = [reg EXCEPT ![c] =
                      [NoCall EXCEPT
                          !.pc = IF storageSpecified THEN "recv"
                                 ELSE "install",
                          !.job = j,
                          !.storageSpecified = storageSpecified]]
                /\ UNCHANGED ret
    /\ UNCHANGED <<Jobs, jobsMem, entries, mu, stats, jobsColl, crashed>>
    /\ UNCHANGED regFrame
    /\ UNCHANGED threadVars

\* the closure of syro.cron.go is entered: errors := NewErrGroup(); with
\* storage the `running` write comes next and no clock is read yet; without
\* storage now := time.Now() is the next statement
SyroJobStart(t) ==
    /\ ~crashed
    /\ UNCHANGED trecv
    /\ UNCHANGED libVars
    /\ pc[t] = "locked"
    /\ IF entries[tjob[t]].storageSpecified
       THEN /\ pc' = [pc EXCEPT ![t] = "recvRunning"]
            /\ UNCHANGED timeVars
       ELSE /\ pc' = [pc EXCEPT ![t] = "callFunc"]
            /\ tstart' = [tstart EXCEPT ![t] = wall]
            /\ tmono' = [tmono EXCEPT ![t] = clock]
            /\ UNCHANGED <<tfin, tdur>>
    /\ terrors' = [terrors EXCEPT ![t] = <<>>]
    /\ stats' = [stats EXCEPT ![tjob[t]].started = @ + 1]
    /\ UNCHANGED <<mu, tjob, terr, tlog, nFires, crashed, cronRunning>>
    /\ UNCHANGED schedVars
    /\ UNCHANGED storeVars

\* RegisterJob(..., JobStatusRunning, nil) of syro.cron.go, the first call
\* of the closure, sent to the storage the closure loaded (syro.cron.go 99),
\* is applied there, or fails, and returns; ok: it succeeds
SyroSetRunning(t, ok) ==
    /\ ~crashed
    /\ UNCHANGED libVars
    /\ UNCHANGED timeVars
    /\ pc[t] = "running"
    /\ trecv' = [trecv EXCEPT ![t] = "nil"]
    /\ LET l == entries[tjob[t]]
       IN  /\ jobsColl' =
                 IF ok
                 THEN [jobsColl EXCEPT ![trecv[t]] =
                          RegisterJob(@, l.name, l.schedule, l.descr,
                                  JobStatusRunning, NoErr)]
                 ELSE jobsColl
           /\ terrors' = [terrors EXCEPT ![t] =
                 ErrGroupAdd(@, IF ok THEN NoErr
                                ELSE "failed to set job " \o l.name
                                     \o " to running: " \o StorageErr)]
    /\ tlog' = [tlog EXCEPT ![t] = Append(@, Ev("status", JobStatusRunning))]
    /\ stats' = [stats EXCEPT ![tjob[t]].writes = Append(@, JobStatusRunning),
                              ![tjob[t]].runningAt = clock]
    /\ pc' = [pc EXCEPT ![t] = "now"]
    /\ UNCHANGED <<mu, tjob, terr, nFires, histColl, crashed, cronRunning>>
    /\ UNCHANGED schedVars

\* now := time.Now() of syro.cron.go, after the `running` write
SyroNow(t) ==
    /\ ~crashed
    /\ UNCHANGED trecv
    /\ UNCHANGED tdur
    /\ UNCHANGED libVars
    /\ tstart' = [tstart EXCEPT ![t] = wall]
    /\ tmono' = [tmono EXCEPT ![t] = clock]
    /\ UNCHANGED tfin
    /\ pc[t] = "now"
    /\ pc' = [pc EXCEPT ![t] = "callFunc"]
    /\ UNCHANGED <<mu, tjob, terr, terrors, tlog, stats, nFires, crashed,
                   cronRunning>>
    /\ UNCHANGED schedVars
    /\ UNCHANGED storeVars

\* the events of the hooks of syro.cron.go: PostExecution(err) if set, then
\* OnError(err) if err is not nil and it is set, then OnSuccess() if err is
\* nil and it is set
SyroHookEvents(j, err) ==
    (IF j.OnComplete THEN <<Ev("PostExecution", err)>> ELSE <<>>)
    \o (IF err # NoErr /\ j.OnError THEN <<Ev("OnError", err)>> ELSE <<>>)
    \o (IF err = NoErr /\ j.OnSuccess THEN <<Ev("OnSuccess", "")>> ELSE <<>>)

\* the hooks of the run, syro.cron.go 108-118
SyroHooks(t) ==
    /\ ~crashed
    /\ UNCHANGED trecv
    /\ UNCHANGED libVars
    /\ UNCHANGED timeVars
    /\ pc[t] = "hooks"
    /\ tlog' = [tlog EXCEPT ![t] =
                  @ \o SyroHookEvents(entries[tjob[t]].job, terr[t])]
    /\ pc' = [pc EXCEPT ![t] =
                IF entries[tjob[t]].storageSpecified THEN "newLog"
                ELSE "unlock"]
    /\ UNCHANGED <<mu, tjob, terr, terrors, stats, nFires, crashed,
                   cronRunning>>
    /\ UNCHANGED schedVars
    /\ UNCHANGED storeVars

\* the job the time specification of syro.cron.go registers
SyroJobs ==
    [isNil : {FALSE}, Name : {"a"}, Schedule : {"@every 1s"}, Func : {TRUE},
     Description : {"d"}, OnError : {TRUE}, OnComplete : {TRUE},
     OnSuccess : {TRUE}]

\* The time specification of syro.cron.go: as the time specification, with
\* Register and the closure of that copy.
NextSyroTime ==
    \/ AttachingOnce
    \/ Start
    \/ \E j \in SyroJobs : SyroRegEnter(1, j)
    \/ RegLoadStorage(1)
    \/ RegStore(1, TRUE)
    \/ \E recovered \in BOOLEAN : RegStoreNil(1, recovered)
    \/ RegInstall(1)
    \/ RegAppend(1)
    \/ Tick
    \/ SetWall(1)
    \/ Fire(1, 1)
    \/ TryLock(1)
    \/ SyroJobStart(1)
    \/ LoadStorage(1)
    \/ \E ok \in BOOLEAN : SyroSetRunning(1, ok)
    \/ SyroNow(1)
    \/ CallFunc(1)
    \/ FuncReturn(1, NoErr)
    \/ SyroHooks(1)
    \/ NewLog(1)
    \/ Since(1)
    \/ RegExec(1, TRUE)
    \/ SetDone(1, TRUE)
    \/ Unlock(1)

SpecSyroTime == Init /\ [][NextSyroTime]_vars

\* m.SetJobsToInactive(Source) is called on the storage st, by whoever holds
\* it; ok: the UpdateMany succeeds
SetInactive(st, ok) ==
    /\ ~crashed
    /\ Len(inactiveCalls) < MaxInactive
    /\ jobsColl' = IF ok
                   THEN [jobsColl EXCEPT ![st] = SetJobsToInactive(@)]
                   ELSE jobsColl
    /\ inactiveCalls' =
          Append(inactiveCalls,
                 [ok |-> ok, held |-> \E e \in 1..Len(mu) : mu[e]])
    /\ UNCHANGED <<clock, wall, cronListColl, docHist, errGroup, egAdded, reg,
                   found>>
    /\ UNCHANGED timeVars
    /\ UNCHANGED <<mu, stats, nFires, histColl, crashed, cronRunning>>
    /\ UNCHANGED schedVars
    /\ UNCHANGED threadVars

\* The inactive specification: one job with both hooks is registered before
\* or after the storage is attached and fires on MaxThreads goroutines, its
\* storage calls succeeding, while SetJobsToInactive is called at any moment.
NextInactive ==
    \/ AttachingOnce
    \/ Start
    \/ RegisteringOnce(TimeJobs, BOOLEAN)
    \/ Firing({TRUE})
    \/ \E ok \in BOOLEAN : SetInactive("storage", ok)

SpecInactive == Init /\ [][NextInactive]_vars

\* the job the attachment specification registers
AttachJobs ==
    [isNil : {FALSE}, Name : {"a"}, Schedule : {"@every 1s"}, Func : {TRUE},
     Description : {"d"}, OnError : {FALSE}, OnComplete : {FALSE}]

\* The attachment specification: the storage is attached, replaced by
\* another one and taken away (WithStorage(nil)) at any moment, while one
\* job is registered and fires on one goroutine, one run after the other;
\* the work function returns and the storage calls succeed.
NextAttach ==
    \/ Attaching({"nil"} \cup Storages)
    \/ Start
    \/ RegisteringOnce(AttachJobs, BOOLEAN)
    \/ Fire(1, 1)
    \/ TryLock(1)
    \/ JobStart(1)
    \/ LoadStorage(1)
    \/ SetRunning(1, TRUE)
    \/ CallFunc(1)
    \/ FuncReturn(1, NoErr)
    \/ Hooks(1)
    \/ NewLog(1)
    \/ Since(1)
    \/ RegExec(1, TRUE)
    \/ SetDone(1, TRUE)
    \/ NilStorage(1)
    \/ Unlock(1)
    \/ PanicUnlock(1)
    \/ \E recovered \in BOOLEAN : PanicEnd(1, recovered)

SpecAttach == Init /\ [][NextAttach]_vars

(***************************************************************************)
(* MongoCronStorage.FindExecutions.  A time is a number, 0 the zero        *)
(* time.Time; a document is a function from the bson keys of the struct to *)
(* values; a query filter is a set of conditions on keys.                  *)
(***************************************************************************)
\* the bson document InsertOne stores for a CronExecLog (its bson tags)
Bson(ex) ==
    [k \in {"source", "name", "initialized_at", "finished_at",
            "execution_time", "error"} |->
        IF k = "source" THEN ex.Source
        ELSE IF k = "name" THEN ex.Name
        ELSE IF k = "initialized_at" THEN ex.InitializedAt
        ELSE IF k = "finished_at" THEN ex.FinishedAt
        ELSE IF k = "execution_time" THEN ex.ExecutionTime
        ELSE ex.Error]

\* a document matches a condition: a key the document does not have matches
\* neither an equality nor a $gte/$lte comparison
MatchesCond(doc, c) ==
    /\ c.key \in DOMAIN doc
    /\ IF c.op = "eq" THEN doc[c.key] = c.lo
       ELSE IF c.op = "gte" THEN doc[c.key] >= c.lo
       ELSE doc[c.key] >= c.lo /\ doc[c.key] <= c.hi

\* queryFilter as FindExecutions builds it
QueryFilter(filter) ==
    (IF filter.From # NoTime /\ filter.To # NoTime
     THEN {[key |-> "time", op |-> "range", lo |-> filter.From,
            hi |-> filter.To]}
     ELSE {})
    \cup (IF filter.Source # ""
          THEN {[key |-> "source", op |-> "eq", lo |-> filter.Source,
                 hi |-> ""]}
          ELSE {})
    \cup (IF filter.Name # ""
          THEN {[key |-> "name", op |-> "eq", lo |-> filter.Name, hi |-> ""]}
          ELSE {})
    \cup (IF filter.ExecutionTime > 0
          THEN {[key |-> "execution_time", op |-> "gte",
                 lo |-> filter.ExecutionTime, hi |-> 0]}
          ELSE {})

\* limit := filter.Limit; if limit > maxLimit { limit = maxLimit }
QueryLimit(limit, maxLimit) == IF limit > maxLimit THEN maxLimit ELSE limit

\* the records of coll from index i on whose documents match every
\* condition of q, in insertion order
RECURSIVE Matching(_, _, _)
Matching(coll, q, i) ==
    IF i > Len(coll) THEN <<>>
    ELSE (IF \A c \in q : MatchesCond(Bson(coll[i]), c)
          THEN <<coll[i]>> ELSE <<>>)
         \o Matching(coll, q, i + 1)

\* docs is in the order SetSort({initialized_at: -1}) asks for
SortedDesc(docs) ==
    \A i \in 1..Len(docs) - 1 :
        docs[i].InitializedAt >= docs[i + 1].InitializedAt

\* the orders in which a sort by initialized_at, latest first, may hand out
\* docs: the sort has no other key, so records with equal initialized_at
\* come in any order
SortOrders(docs) ==
    LET n == Len(docs)
        perms == {p \in [1..n -> 1..n] :
                     \A a, b \in 1..n : a # b => p[a] # p[b]}
    IN  {s \in {[i \in 1..n |-> docs[p[i]]] : p \in perms} : SortedDesc(s)}

\* SetSkip(skip) and SetLimit(limit) applied to the sorted records; a limit
\* of 0 is no limit
Cut(sorted, limit, skip) ==
    LET rest == SubSeq(sorted, skip + 1, Len(sorted))
    IN  IF limit = 0 \/ limit >= Len(rest) THEN rest
        ELSE SubSeq(rest, 1, limit)

\* coll.Find(filter, opts) and cur.All: match, sort, skip, limit; the
\* results the query may give
Find(coll, q, limit, skip) ==
    {Cut(s, limit, skip) : s \in SortOrders(Matching(coll, q, 1))}

\* FindExecutions(filter, maxLimit): the records and the error it may
\* return; ok: the query succeeds, else coll.Find or cur.All fails and docs
\* is nil or what cur.All had decoded
FindExecutions(coll, filter, maxLimit, ok) ==
    IF /\ filter.From # NoTime /\ filter.To # NoTime
       /\ filter.From > filter.To
    THEN {[docs |-> <<>>, err |-> "from date cannot be after to date"]}
    ELSE LET res == Find(coll, QueryFilter(filter),
                         QueryLimit(filter.Limit, maxLimit), filter.Skip)
         IN  IF ok THEN {[docs |-> d, err |-> NoErr] : d \in res}
             ELSE UNION {{[docs |-> SubSeq(d, 1, n), err |-> StorageErr] :
                             n \in 0..Len(d)} : d \in res}

\* a nil *CronExecLog
NilExec == [isNil |-> TRUE]

\* the execution records inserted into the history collection
ExecInputs ==
    {[Source |-> p[1], Name |-> p[2], InitializedAt |-> at,
      FinishedAt |-> at + d, ExecutionTime |-> d, Error |-> ""] :
        p \in {<<Source, "a">>, <<Source, "A">>, <<"other", "a">>},
        at \in {1, 3}, d \in {0, 2}}

\* the filters and limits FindExecutions is called with
FilterInputs ==
    [From : {NoTime, 1, 3}, To : {NoTime, 2}, Limit : {0, 1, 3},
     Skip : {0, 1}, Source : {"", Source}, Name : {"", "a"},
     ExecutionTime : {0, 1}]

MaxLimits == {1, 2}

\* m.RegisterExecution(ex) is called on the store "storage"; ok: InsertOne succeeds
RegisterExecutionCall(ex, ok) ==
    /\ ~found.called
    /\ Len(histColl["storage"]) < MaxDocs
    /\ IF ex = NilExec
       THEN /\ ret' = "job execution cannot be nil"
            /\ UNCHANGED histColl
       ELSE IF ~ok
       THEN /\ ret' = StorageErr
            /\ UNCHANGED histColl
       ELSE /\ histColl' = [histColl EXCEPT !["storage"] =
                               RegisterExecution(@, ex)]
            /\ ret' = NoErr
    /\ UNCHANGED <<clock, wall, cronListColl, docHist, errGroup, egAdded,
                   reg, inactiveCalls, found>>
    /\ UNCHANGED timeVars
    /\ UNCHANGED <<mu, stats, nFires, jobsColl, crashed, cronRunning>>
    /\ UNCHANGED <<cron, Jobs, jobsMem, CronStorage, attaching, entries>>
    /\ UNCHANGED threadVars

\* m.FindExecutions(filter, maxLimit) is called on the store "storage"; ok: the query
\* succeeds
FindExecutionsCall(filter, maxLimit, ok) ==
    /\ ~found.called
    /\ \E res \in FindExecutions(histColl["storage"], filter, maxLimit,
                                  ok) :
          found' = [called |-> TRUE, filter |-> filter,
                    maxLimit |-> maxLimit, docs |-> res.docs,
                    err |-> res.err]
    /\ UNCHANGED <<clock, wall, cronListColl, docHist, errGroup, egAdded,
                   reg, inactiveCalls>>
    /\ UNCHANGED timeVars
    /\ UNCHANGED <<mu, stats, nFires, crashed, cronRunning>>
    /\ UNCHANGED schedVars
    /\ UNCHANGED threadVars
    /\ UNCHANGED storeVars

\* The query specification: up to MaxDocs execution records are inserted,
\* then FindExecutions is called with any filter and limit; the database
\* answers or fails.
NextFind ==
    \/ \E ex \in ExecInputs \cup {NilExec}, ok \in BOOLEAN :
          RegisterExecutionCall(ex, ok)
    \/ \E filter \in FilterInputs, maxLimit \in MaxLimits, ok \in BOOLEAN :
          FindExecutionsCall(filter, maxLimit, ok)

SpecFind == Init /\ [][NextFind]_vars

(***************************************************************************)
(* Helpers of the properties.                                              *)
(***************************************************************************)
Entries == 1..Len(entries)

\* the goroutines that are in Run of entry e at one of the positions ps
At(e, ps) == {t \in Threads : tjob[t] = e /\ pc[t] \in ps}

\* goroutine t takes its TryLock step
TryLockStep(t) == pc[t] = "Run" /\ pc'[t] # "Run"

\* goroutine t has just been skipped: its log is the one skip event
WasSkipped(t) ==
    /\ pc[t] = "idle"
    /\ tjob[t] # 0
    /\ tlog[t] = <<Ev("skip", entries[tjob[t]].name)>>

(***************************************************************************)
(* C1  Mutual exclusion per job: at every moment at most one goroutine is  *)
(* between a successful TryLock and the Unlock of a given job's lock, so   *)
(* at most one invocation of its wrapped function (status writes, work     *)
(* function, hooks, record write) is in progress.                          *)
(***************************************************************************)
C1_MutualExclusion ==
    \A e \in Entries : Cardinality(At(e, InLock)) <= 1

\* two firings of one job contend: one is in the work function, the other
\* found the lock held
C1_Witness ==
    \E e \in Entries : At(e, {"inFunc"}) # {} /\ At(e, {"skip"}) # {}

(***************************************************************************)
(* C2  A firing that fails to acquire the lock bypasses the pipeline and   *)
(* is never deferred: on the skip path it logs nothing but the skip event, *)
(* its steps change neither the lock nor the storage, it returns, and the  *)
(* wrapped function is entered exactly once per acquired lock (started     *)
(* plus the holders that are about to enter it equals acquired), every     *)
(* firing is pending, skipped or an acquirer, and there are no more work   *)
(* function calls or execution records than entries into the function.     *)
(***************************************************************************)
\* the execution records of all the stores
AllRecords == histColl["storage"] \o histColl["other"]

\* the job records and the execution records of the storage "storage"
Store == jobsColl["storage"]

History == histColl["storage"]

C2_SkipInv ==
    /\ \A t \in Threads : pc[t] = "skip" => tlog[t] = <<>>
    /\ \A t \in Threads :
          (pc[t] = "idle" /\ tlog[t] # <<>> /\ tlog[t][1].op = "skip")
              => Len(tlog[t]) = 1
    /\ \A e \in Entries :
          /\ stats[e].started + Cardinality(At(e, {"locked"}))
                = stats[e].acquired
          /\ stats[e].fired
                = stats[e].acquired + stats[e].skips
                  + Cardinality(At(e, {"Run", "skip"}))
          /\ stats[e].execs <= stats[e].started
          /\ Len(SelectSeq(AllRecords, LAMBDA x : x.Name = entries[e].name))
                <= stats[e].started

C2_SkipStep ==
    \A t \in Threads :
        /\ (TryLockStep(t) /\ pc'[t] = "skip")
              => UNCHANGED <<mu, stats, jobsColl, histColl, tlog>>
        /\ (pc[t] = "skip" /\ pc'[t] # "skip")
              => /\ pc'[t] = "idle"
                 /\ UNCHANGED <<mu, jobsColl, histColl>>
                 /\ stats'[tjob[t]].started = stats[tjob[t]].started
                 /\ stats'[tjob[t]].execs = stats[tjob[t]].execs

C2_SkipBypassesPipeline == []C2_SkipInv /\ [][C2_SkipStep]_vars

\* a firing of a job with storage was skipped and has returned while the
\* holder of the lock is still in the pipeline
C2_Witness ==
    \E t \in Threads :
        /\ WasSkipped(t)
        /\ entries[tjob[t]].storageSpecified
        /\ At(tjob[t], InFn) # {}

(***************************************************************************)
(* C3  k firings of one job that all arrive before the first run of it has *)
(* left Run (returned = 0): at most one acquires the lock and the work     *)
(* function is called at most once; once all k have tried the lock exactly *)
(* one holds it and the other k-1 are on the skip path; once they are      *)
(* through, the work function has been called exactly once and there are   *)
(* exactly k-1 skip events.  At any time a job has at most one acquisition *)
(* more than it has returns.                                               *)
(***************************************************************************)
C3_OneExecutionPerBurst ==
    \A e \in Entries :
        /\ stats[e].acquired <= stats[e].returned + 1
        /\ stats[e].returned = 0 =>
              /\ stats[e].acquired <= 1
              /\ stats[e].execs <= 1
              /\ (stats[e].fired >= 1 /\ At(e, {"Run"}) = {}) =>
                    /\ stats[e].acquired = 1
                    /\ stats[e].skips + Cardinality(At(e, {"skip"}))
                          = stats[e].fired - 1
              /\ (stats[e].fired >= 1
                  /\ At(e, {"Run", "skip", "locked", "recvRunning", "running",
                           "callFunc"}) = {})
                    => /\ stats[e].execs = 1
                       /\ stats[e].skips = stats[e].fired - 1

\* two firings arrived before any return: one execution and one skip
C3_Witness ==
    \E e \in Entries :
        /\ stats[e].returned = 0
        /\ stats[e].fired = 2
        /\ stats[e].execs = 1
        /\ stats[e].skips = 1

(***************************************************************************)
(* C4  The lock is never left held after Run returns: a job's lock is held *)
(* only while a goroutine is between a successful TryLock and the deferred *)
(* Unlock of that job, also after a panic of the wrapped function; so a    *)
(* firing that tries the lock while no run of the job is in progress       *)
(* acquires it and is not skipped.                                         *)
(***************************************************************************)
C4_HeldOnlyDuringRun ==
    \A e \in Entries : mu[e] => At(e, InLock) # {}

C4_FreeLockAcquired ==
    \A t \in Threads :
        (TryLockStep(t) /\ At(tjob[t], InLock) = {}) => pc'[t] = "locked"

C4_LockFreeAfterReturn == []C4_HeldOnlyDuringRun /\ [][C4_FreeLockAcquired]_vars

\* a run panicked and its deferred Unlock has run; the panic is on its way
\* up, neither recovered yet nor at the point where it ends the process;
\* and a later firing of the same job has acquired the lock and is
\* executing the work function
C4_Witness ==
    \E t, u \in Threads :
        /\ ~crashed
        /\ pc[t] = "unwind"
        /\ tlog[t][Len(tlog[t])].op = "panic"
        /\ tjob[u] = tjob[t]
        /\ pc[u] = "inFunc"
        /\ stats[tjob[t]].acquired = 2

(***************************************************************************)
(* C5  Acquisition does not block: while the process lives, a goroutine    *)
(* that entered Run can always take its TryLock step and one on the skip   *)
(* path can always take its Printf step, whatever the holder does (also    *)
(* when the holder never returns); a TryLock step on a held lock leads to  *)
(* the skip path and the next step of that goroutine returns; and only a   *)
(* goroutine whose job's lock is held is inside the wrapped function.      *)
(***************************************************************************)
C5_NeverWaits ==
    \A t \in Threads :
        /\ (~crashed /\ pc[t] = "Run") => ENABLED TryLock(t)
        /\ (~crashed /\ pc[t] = "skip") => ENABLED Skip(t)
        /\ pc[t] \in InFn => mu[tjob[t]]

C5_TwoSteps ==
    \A t \in Threads :
        /\ (TryLockStep(t) /\ mu[tjob[t]]) => pc'[t] = "skip"
        /\ (pc[t] = "skip" /\ pc'[t] # "skip") => pc'[t] = "idle"

C5_NonBlocking == []C5_NeverWaits /\ [][C5_TwoSteps]_vars

\* the holder never returns and a firing of the same job has come back
C5_Witness ==
    \E t, u \in Threads :
        /\ pc[t] = "hung"
        /\ tjob[u] = tjob[t]
        /\ WasSkipped(u)
        /\ stats[tjob[t]].returned = 0

(***************************************************************************)
(* C6  A work function that never returns: its goroutine stays where it    *)
(* is, the job's lock stays held, every later TryLock step of a firing of  *)
(* that job leads to the skip path, and the wrapped function and the work  *)
(* function of that job are never entered again.                           *)
(***************************************************************************)
C6_HungStep ==
    \A t \in Threads :
        pc[t] = "hung" =>
            /\ pc'[t] = "hung"
            /\ tjob'[t] = tjob[t]
            /\ mu[tjob[t]] /\ mu'[tjob[t]]
            /\ stats'[tjob[t]].started = stats[tjob[t]].started
            /\ stats'[tjob[t]].execs = stats[tjob[t]].execs
            /\ \A u \in Threads :
                  (tjob[u] = tjob[t] /\ TryLockStep(u)) => pc'[u] = "skip"

C6_HungHoldsForever == [][C6_HungStep]_vars

\* the work function hangs and a later firing of the job is on the skip path
C6_Witness ==
    \E t, u \in Threads :
        /\ pc[t] = "hung"
        /\ tjob[u] = tjob[t]
        /\ pc[u] = "skip"

(***************************************************************************)
(* C7  Locks are per job: a firing is sent to the skip path only when a    *)
(* run of its own job is in progress, whatever the other jobs do, and a    *)
(* goroutine's step changes no lock but its own job's; two different jobs  *)
(* can be inside their work functions at the same time.                    *)
(***************************************************************************)
C7_Step ==
    /\ \A t \in Threads :
          (TryLockStep(t) /\ pc'[t] = "skip")
              => \E u \in Threads \ {t} :
                    tjob[u] = tjob[t] /\ pc[u] \in InLock
    /\ \A e \in Entries :
          mu'[e] # mu[e] =>
              \E t \in Threads : tjob[t] = e /\ pc'[t] # pc[t]

C7_PerJobLocks == [][C7_Step]_vars

\* job A never returns and a firing of job B executes its work function
C7_Witness ==
    \E t, u \in Threads :
        /\ tjob[t] # tjob[u]
        /\ pc[t] = "hung"
        /\ pc[u] = "inFunc"
        /\ stats[tjob[u]].skips = 0

(***************************************************************************)
(* Helpers of the registration properties.                                 *)
(***************************************************************************)
\* the name of j is the name of a job of the registry (exact match)
NameTaken(j) == \E i \in 1..Len(Jobs) : Jobs[i].Name = j.Name

DuplicateError(j) == "job with name " \o j.Name \o " already exists"

(***************************************************************************)
(* C8  Register of a job that reaches the name check (the job is not nil   *)
(* and has a schedule and a work function) and whose Name is exactly the   *)
(* Name of a job of the registry returns the duplicate-name error and      *)
(* leaves the registry and the installed triggers as they were; a name     *)
(* that no job of the registry has (one differing in case included) never  *)
(* gets that error.                                                        *)
(***************************************************************************)
C8_Step ==
    /\ \A j \in RegisterInputs :
          (~j.isNil /\ j.Schedule # "" /\ j.Func /\ RegEnter(1, FALSE, j)) =>
              IF NameTaken(j)
              THEN /\ ret' = DuplicateError(j)
                   /\ reg'[1].pc = "returned"
                   /\ reg'[1].ret = DuplicateError(j)
                   /\ Jobs' = Jobs
                   /\ entries' = entries
              ELSE reg'[1].ret # DuplicateError(j)
    /\ (reg[1].pc \in {"recv", "store", "install", "append"}
        /\ reg'[1].pc = "returned") =>
          ret' # DuplicateError(reg[1].job)

C8_DuplicateNameRejected == [][C8_Step]_vars

\* "a" and "A" are both registered and a second "A" was just rejected
C8_Witness ==
    /\ Len(Jobs) = 2
    /\ Jobs[1].Name = "a"
    /\ Jobs[2].Name = "A"
    /\ ret = "job with name A already exists"

(***************************************************************************)
(* C9  Registry invariant: after any sequence of Register calls the jobs   *)
(* of the registry have pairwise distinct names and each of them is not    *)
(* nil and has a non-empty Name, a non-empty Schedule and a work function. *)
(***************************************************************************)
C9_RegistryInvariant ==
    /\ \A i, k \in 1..Len(Jobs) : i # k => Jobs[i].Name # Jobs[k].Name
    /\ \A i \in 1..Len(Jobs) :
          /\ ~Jobs[i].isNil
          /\ Jobs[i].Name # ""
          /\ Jobs[i].Schedule # ""
          /\ Jobs[i].Func

\* two jobs are registered and the last call was rejected
C9_Witness ==
    /\ Len(Jobs) = 2
    /\ ret = "job function cannot be nil"

(***************************************************************************)
(* C10  On a scheduler with a trigger source, Register of a job with an    *)
(* empty Schedule, an empty Name or a nil work function fails with the     *)
(* error of the first of these checks the job violates; each of the three  *)
(* errors is returned only for a job with that defect, none of them is the *)
(* nil-job or the duplicate-name error, and the registry and the installed *)
(* triggers are unchanged.                                                 *)
(***************************************************************************)
C10_Step ==
    \A j \in RegisterInputs :
        (/\ ~j.isNil
         /\ cron # "nil"
         /\ (j.Schedule = "" \/ j.Name = "" \/ ~j.Func)
         /\ RegEnter(1, FALSE, j)) =>
            /\ reg'[1].pc = "returned"
            /\ reg'[1].ret = ret'
            /\ ret' = IF j.Schedule = "" THEN "schedule has to be specified"
                      ELSE IF j.Name = "" THEN "name has to be specified"
                      ELSE "job function cannot be nil"
            /\ ret' = "schedule has to be specified" => j.Schedule = ""
            /\ ret' = "name has to be specified" => j.Name = ""
            /\ ret' = "job function cannot be nil" => ~j.Func
            /\ ret' \notin {NoErr, "job cannot be nil", DuplicateError(j)}
            /\ Jobs' = Jobs
            /\ entries' = entries

C10_ValidationErrors == [][C10_Step]_vars

\* a job without a name was just rejected by a scheduler that has a job
C10_Witness ==
    /\ Len(Jobs) = 1
    /\ ret = "name has to be specified"

(***************************************************************************)
(* Registration: storage write, trigger installation, registry.            *)
(***************************************************************************)
\* the record the `initialized` write of Register(j) leaves in the store
InitializedRecord(j) ==
    [present |-> TRUE, status |-> JobStatusInitialized, sched |-> j.Schedule,
     descr |-> j.Description, error |-> "", exit_with_err |-> FALSE]

\* the call of goroutine 1 has returned in this step, with r
Returned(r) ==
    /\ reg[1].pc \notin {"idle", "returned"}
    /\ reg'[1].pc = "returned"
    /\ reg'[1].ret = r
    /\ ret' = r

\* the registry and the installed triggers go together: the triggers are
\* those of the jobs of the registry, in their order, and at most the one
\* of the call that is between AddJob and append
Installed ==
    /\ Len(entries) = Len(Jobs) + (IF reg[1].pc = "append" THEN 1 ELSE 0)
    /\ \A e \in 1..Len(Jobs) : entries[e].job = Jobs[e]
    /\ reg[1].pc = "append" => entries[Len(entries)].job = reg[1].job

\* no trigger is installed, and no call is at AddJob, for a job with storage
\* whose `initialized` record was not written, and nothing fires but the
\* installed triggers
C11_Inv ==
    /\ Installed
    /\ \A t \in Threads : ~ENABLED Fire(t, Len(entries) + 1)
    /\ \A e \in Entries :
          entries[e].storageSpecified =>
              \E st \in Storages :
                  jobsColl[st][entries[e].name]
                      = InitializedRecord(entries[e].job)
    /\ (reg[1].pc = "install" /\ reg[1].storageSpecified) =>
          \E st \in Storages :
              jobsColl[st][reg[1].job.Name] = InitializedRecord(reg[1].job)

\* a Register that passes validation and finds s.CronStorage not nil goes
\* to the `initialized` write and not to AddJob: it loads s.CronStorage and
\* sends the write to the storage it finds there; the write leaves the
\* record in that storage and then the call goes on to AddJob, or it fails
\* and the call returns that error having installed and added nothing; a
\* call that finds a word of s.CronStorage nil when it loads it (a
\* WithStorage call is half way, or took the storage away) panics there,
\* having installed and added nothing; a trigger is installed by AddJob
\* only
C11_Step ==
    /\ (reg[1].pc \in {"idle", "returned"} /\ reg'[1].pc = "install") =>
          ~NotNil(CronStorage)
    /\ (reg[1].pc \in {"idle", "returned"}
        /\ reg'[1].pc \notin {"idle", "returned", "install"}) =>
          NotNil(CronStorage) /\ reg'[1].pc = "recv"
    /\ (reg[1].pc = "recv" /\ reg'[1].pc # "recv") =>
          \/ /\ reg'[1].pc = "store"
             /\ Receiver(CronStorage) # "nil"
             /\ reg'[1].recv = Receiver(CronStorage)
             /\ UNCHANGED <<Jobs, entries, mu, stats, jobsColl>>
          \/ /\ Returned(Panicked)
             /\ Receiver(CronStorage) = "nil"
             /\ UNCHANGED <<Jobs, entries, mu, stats, jobsColl>>
    /\ (reg[1].pc = "store" /\ reg'[1].pc # "store") =>
          \/ /\ reg'[1].pc = "install"
             /\ reg[1].recv # "nil"
             /\ jobsColl'[reg[1].recv][reg[1].job.Name]
                   = InitializedRecord(reg[1].job)
             /\ UNCHANGED <<Jobs, entries, mu, stats>>
          \/ /\ Returned(StorageErr)
             /\ UNCHANGED <<Jobs, entries, mu, stats, jobsColl>>
    /\ \A ok \in BOOLEAN :
          RegStore(1, ok) => (ok <=> reg'[1].pc = "install")
    /\ entries' # entries => reg[1].pc = "install"
    /\ Jobs' # Jobs => reg[1].pc = "append"

\* C11: with storage attached, Register issues the `initialized` status write
\* before it installs the trigger; if that write fails, Register returns that
\* error, the trigger is never installed (the job can never fire) and the job
\* is not added to the registry.
C11_InitializedWriteFirst == []C11_Inv /\ [][C11_Step]_vars

\* a registration failed on its `initialized` write, on a scheduler that
\* holds one job registered before
C11_Witness ==
    /\ ret = StorageErr
    /\ reg[1].pc = "returned"
    /\ reg[1].ret = StorageErr
    /\ CronStorage = Iface("storage")
    /\ Len(Jobs) = 1
    /\ Len(entries) = 1

\* every job of the registry, and every installed trigger, has a schedule
\* the trigger source accepted
C12_Inv ==
    /\ \A i \in 1..Len(Jobs) : Jobs[i].Schedule = "@every 1s"
    /\ \A e \in Entries : entries[e].job.Schedule = "@every 1s"
    /\ reg[1].pc = "append" => reg[1].job.Schedule = "@every 1s"

\* a Register that passes validation and the storage write, with a schedule
\* cron.AddJob rejects, returns the error of AddJob and adds nothing; the
\* registry changes only in a call whose trigger was installed
C12_Step ==
    /\ (reg[1].pc = "install" /\ reg'[1].pc # "install") =>
          IF reg[1].job.Schedule = "bad"
          THEN /\ Returned(ParseErr)
               /\ UNCHANGED <<Jobs, entries, mu, stats>>
          ELSE /\ reg'[1].pc = "append"
               /\ Len(entries') = Len(entries) + 1
               /\ Jobs' = Jobs
    /\ Jobs' # Jobs => reg[1].pc = "append"
    /\ (reg[1].pc # "append" /\ reg'[1].pc = "append") =>
          reg[1].pc = "install"

\* C12: if installing the trigger fails, Register returns that failure and
\* the job is not added to the registry.
C12_InstallFailure == []C12_Inv /\ [][C12_Step]_vars

\* a registration failed in cron.AddJob on a scheduler that holds one job
C12_Witness ==
    /\ ret = ParseErr
    /\ reg[1].pc = "returned"
    /\ reg[1].job.Schedule = "bad"
    /\ Len(Jobs) = 1
    /\ Len(entries) = 1

\* the registry changes only in the step in which a Register call returns
\* nil, and then the job of that call is appended; a call that returns
\* anything else leaves the registry alone
C13_Step ==
    /\ Jobs' # Jobs =>
          /\ Returned(NoErr)
          /\ Jobs' = Append(Jobs, reg[1].job)
          /\ Len(Jobs') = Len(Jobs) + 1
          /\ SubSeq(Jobs', 1, Len(Jobs)) = Jobs
    /\ (reg'[1].pc = "returned" /\ reg'[1] # reg[1]) =>
          Jobs' = (IF reg'[1].ret = NoErr THEN Append(Jobs, reg[1].job)
                   ELSE Jobs)
    /\ \A recvNil \in BOOLEAN, j \in RegisterInputs :
          (reg'[1].job # j /\ reg'[1].pc # "returned") =>
              ~RegEnter(1, recvNil, j)

\* C13: the registry is append-only and ordered: a Register call changes it
\* only when it returns nil, and then appends exactly the given job at the
\* end, earlier entries and their order unchanged; no operation removes or
\* reorders entries.
C13_RegistryAppendOnly == [][C13_Step]_vars

\* two jobs were registered, "A" first, and a later registration failed
C13_Witness ==
    /\ Len(Jobs) = 2
    /\ Jobs[1].Name = "A"
    /\ Jobs[2].Name = "a"
    /\ reg[1].pc = "returned"
    /\ reg[1].ret # NoErr
    /\ ret # NoErr

\* a job Register has no reason to reject: not nil, with a name that is not
\* in the registry, a schedule cron.AddJob accepts and a work function
Registrable(j) ==
    /\ ~j.isNil
    /\ j.Name # ""
    /\ j.Schedule = "@every 1s"
    /\ j.Func
    /\ ~NameTaken(j)

\* C14, as stated: a failed Register is fatal to that registration only:
\* after any failed Register (validation, duplicate name, initial status
\* write or trigger installation), a later Register of a valid job whose
\* name is not in the registry succeeds, a job with the name of the rejected
\* one included.  While the error of a failed Register is the latest result
\* (ret), a registrable job handed to Register is not turned down by the
\* checks, and no step of the call of one makes it return an error or panic.
C14_LaterRegisterSucceeds ==
    (~crashed /\ ret # NoErr) =>
        /\ reg[1].pc \in {"idle", "returned"} =>
              \A j \in RegisterInputs :
                  Registrable(j) =>
                      ~ENABLED (/\ RegEnter(1, FALSE, j)
                                /\ reg'[1].pc = "returned")
        /\ (reg[1].pc \in {"recv", "store", "install", "append"}
            /\ Registrable(reg[1].job)) =>
              ~ENABLED (/\ \/ RegLoadStorage(1)
                           \/ \E ok \in BOOLEAN : RegStore(1, ok)
                           \/ \E recovered \in BOOLEAN :
                                 RegStoreNil(1, recovered)
                           \/ RegInstall(1)
                           \/ RegAppend(1)
                        /\ reg'[1].ret # NoErr)

\* on a scheduler with a trigger source, whatever Register calls failed
\* before: the checks pass a registrable job and turn none down; the call
\* of one can take each of its steps: it sends the `initialized` write when
\* both words of s.CronStorage are there when it loads them, and can only
\* panic when one is nil; a write that was sent can succeed; AddJob accepts
\* the job and append adds it
C14_Inv ==
    (~crashed /\ cron # "nil") =>
        /\ reg[1].pc \in {"idle", "returned"} =>
              \A j \in RegisterInputs :
                  Registrable(j) =>
                      /\ ENABLED (/\ RegEnter(1, FALSE, j)
                                  /\ reg'[1].pc \in {"recv", "install"}
                                  /\ reg'[1].job = j)
                      /\ ~ENABLED (/\ RegEnter(1, FALSE, j)
                                   /\ reg'[1].pc = "returned")
        /\ reg[1].pc \in {"recv", "store", "install", "append"} =>
              Registrable(reg[1].job) \/ reg[1].job.Schedule = "bad"
        /\ reg[1].pc = "recv" =>
              IF Receiver(CronStorage) # "nil"
              THEN /\ ENABLED (RegLoadStorage(1) /\ reg'[1].pc = "store")
                   /\ ~ENABLED (RegLoadStorage(1) /\ reg'[1].pc # "store")
                   /\ \A recovered \in BOOLEAN :
                         ~ENABLED RegStoreNil(1, recovered)
              ELSE /\ ~ENABLED RegLoadStorage(1)
                   /\ ENABLED RegStoreNil(1, TRUE)
        /\ reg[1].pc = "store" =>
              /\ ENABLED (RegStore(1, TRUE) /\ reg'[1].pc = "install")
              /\ ~ENABLED (RegStore(1, TRUE) /\ reg'[1].pc # "install")
              /\ \A recovered \in BOOLEAN :
                    ~ENABLED RegStoreNil(1, recovered)
        /\ (reg[1].pc = "install" /\ Registrable(reg[1].job)) =>
              /\ ENABLED (RegInstall(1) /\ reg'[1].pc = "append")
              /\ ~ENABLED (RegInstall(1) /\ reg'[1].pc # "append")
        /\ reg[1].pc = "append" =>
              /\ ENABLED (/\ RegAppend(1)
                          /\ ret' = NoErr
                          /\ Jobs' = Append(Jobs, reg[1].job))
              /\ ~ENABLED (RegAppend(1) /\ ret' # NoErr)

\* the call of a registrable job returns nil, with the job appended, or it
\* returns from its `initialized` write: the error of that write, or the
\* panic of the call on a storage of which a word is nil when it is loaded
C14_Step ==
    (/\ reg[1].pc \in {"recv", "store", "install", "append"}
     /\ Registrable(reg[1].job)
     /\ reg'[1].pc = "returned") =>
        \/ /\ Returned(NoErr)
           /\ reg[1].pc = "append"
           /\ Jobs' = Append(Jobs, reg[1].job)
        \/ /\ Returned(StorageErr)
           /\ reg[1].pc = "store"
        \/ /\ Returned(Panicked)
           /\ reg[1].pc = "recv"
           /\ Receiver(CronStorage) = "nil"

\* C14, amended: on a scheduler with a trigger source, a failed Register is
\* fatal to that registration only: after any failed Register (validation,
\* duplicate name, initial status write or trigger installation), a later
\* Register of a valid job whose name is not in the registry, a job with the
\* name of the rejected one included, succeeds unless its own initial status
\* write fails, or panics because a WithStorage call is half way or has
\* taken the storage away.
C14_FailureIsLocal == []C14_Inv /\ [][C14_Step]_vars

\* the registration of "a" failed in cron.AddJob after its record was
\* written, and a later Register of a job named "a" has just returned nil,
\* the job in the registry
C14_Witness ==
    /\ ~crashed
    /\ ret = NoErr
    /\ reg[1].pc = "returned"
    /\ reg[1].ret = NoErr
    /\ reg[1].job.Name = "a"
    /\ jobsColl["storage"]["a"].present
    /\ jobsColl["storage"]["a"].sched = "bad"
    /\ Len(Jobs) = 1
    /\ Jobs[1].Name = "a"
    /\ Jobs[1].Schedule = "@every 1s"

(***************************************************************************)
(* The pipeline of one run.                                                *)
(***************************************************************************)
\* the place of an event in the order the claims of the pipeline state
EvRank(ev) ==
    IF ev = Ev("status", JobStatusRunning) THEN 1
    ELSE IF ev.op = "Func" THEN 2
    ELSE IF ev.op = "OnComplete" THEN 3
    ELSE IF ev.op = "OnError" THEN 4
    ELSE IF ev.op = "execution" THEN 5
    ELSE IF ev = Ev("status", JobStatusDone) THEN 6
    ELSE 7

\* the firing of goroutine t has done an event of rank r
Has(t, r) == \E i \in 1..Len(tlog[t]) : EvRank(tlog[t][i]) = r

\* goroutine t is in, or has left, a firing of a job registered with storage
WithStore(t) == tjob[t] # 0 /\ entries[tjob[t]].storageSpecified

\* the hooks of the job of goroutine t that apply to the result of its run
HooksDone(t) ==
    /\ entries[tjob[t]].job.OnComplete => Has(t, 3)
    /\ (entries[tjob[t]].job.OnError /\ terr[t] # NoErr) => Has(t, 4)

\* C15: on every executed firing with storage attached the events occur in
\* the order: `running` status write, work function call, completion hook,
\* error hook (if any), execution-record write, `done` status write; the work
\* function is never called before the `running` write is issued, and the
\* `done` write is never issued before the work function and the hooks have
\* returned.
C15_PipelineOrder ==
    \A t \in Threads :
        WithStore(t) =>
            /\ \A i \in 1..(Len(tlog[t]) - 1) :
                  EvRank(tlog[t][i]) < EvRank(tlog[t][i + 1])
            /\ pc[t] \in {"callFunc", "inFunc", "hung", "hooks", "newLog",
                          "since", "recvExec", "regExec", "recvDone",
                          "setDone", "unlock", "panic", "unwind"}
                  => Has(t, 1)
            /\ Has(t, 2) => Has(t, 1)
            /\ (Has(t, 3) \/ Has(t, 4)) =>
                  Has(t, 2) /\ pc[t] \notin {"inFunc", "hung", "hooks"}
            /\ Has(t, 5) => Has(t, 2) /\ HooksDone(t)
            /\ Has(t, 6) =>
                  /\ Has(t, 2) /\ HooksDone(t) /\ Has(t, 5)
                  /\ pc[t] \in {"unlock", "idle"}
            /\ pc[t] = "unlock" => Has(t, 6)

\* a run with storage, both hooks and a failing work function is about to
\* return, all six events done
C15_Witness ==
    \E t \in Threads :
        /\ WithStore(t)
        /\ pc[t] = "unlock"
        /\ Len(tlog[t]) = 6
        /\ terr[t] # NoErr

\* the places in the log of goroutine t of the calls of hook op
Calls(t, op) == {i \in 1..Len(tlog[t]) : tlog[t][i].op = op}

\* the positions of a run between its hooks and the return of
\* RegisterExecution
RecordPos == {"newLog", "since", "recvExec", "regExec"}

\* the position of goroutine t is past the hooks of an executed firing: in
\* the run after them, or back in idle from a run whose function returned
PastHooks(t) ==
    \/ pc[t] \in {"newLog", "since", "recvExec", "regExec", "recvDone",
                  "setDone", "unlock"}
    \/ pc[t] = "idle" /\ Calls(t, "Func") # {} /\ Calls(t, "panic") = {}

\* C16: on every executed firing OnComplete (if set) is called exactly once
\* with the result of the work function (nil on success), and OnError (if
\* set) is called exactly once with that same error if and only if the result
\* is not nil, after OnComplete; OnError is never called on a successful run.
C16_Hooks ==
    \A t \in Threads :
        tjob[t] # 0 =>
            LET j == entries[tjob[t]].job
                oc == Calls(t, "OnComplete")
                oe == Calls(t, "OnError")
            IN  /\ Cardinality(oc) <= 1
                /\ Cardinality(oe) <= 1
                /\ \A i \in oc : j.OnComplete /\ tlog[t][i].arg = terr[t]
                /\ \A i \in oe :
                      /\ j.OnError
                      /\ tlog[t][i].arg = terr[t]
                      /\ terr[t] # NoErr
                      /\ \A k \in oc : k < i
                /\ \A i \in oc \cup oe :
                      /\ PastHooks(t)
                      /\ \E k \in Calls(t, "Func") : k < i
                /\ PastHooks(t) =>
                      /\ j.OnComplete => Cardinality(oc) = 1
                      /\ (j.OnError /\ terr[t] # NoErr) => Cardinality(oe) = 1

\* of two finished firings of a job with both hooks one succeeded, with one
\* call of OnComplete and none of OnError, and one failed, with OnComplete
\* and then OnError called with the error
C16_Witness ==
    \E t \in Threads, u \in Threads :
        /\ pc[t] = "idle" /\ pc[u] = "idle"
        /\ tjob[t] # 0 /\ tjob[u] # 0
        /\ entries[tjob[t]].job.OnComplete /\ entries[tjob[t]].job.OnError
        /\ PastHooks(t) /\ PastHooks(u)
        /\ terr[t] = NoErr /\ Calls(t, "OnError") = {}
        /\ Cardinality(Calls(t, "OnComplete")) = 1
        /\ terr[u] # NoErr
        /\ Cardinality(Calls(u, "OnComplete")) = 1
        /\ Cardinality(Calls(u, "OnError")) = 1

\* the submissions of an execution record goroutine t has made in its firing
C17_Inv ==
    \A t \in Threads :
        tjob[t] # 0 =>
            LET ex == Calls(t, "execution")
            IN  /\ Cardinality(ex) <= 1
                /\ ~WithStore(t) => ex = {}
                /\ Calls(t, "skip") # {} => ex = {}
                /\ \A i \in ex :
                      /\ tlog[t][i].arg = terr[t]
                      /\ \E k \in Calls(t, "Func") : k < i
                      /\ pc[t] \in {"recvDone", "setDone", "unlock", "idle"}
                /\ (WithStore(t) /\ PastHooks(t)
                    /\ pc[t] \notin RecordPos) =>
                      Cardinality(ex) = 1

\* the store's history grows by the one record of a run past its hooks, with
\* the scheduler's Source, the job's Name and the error text of the run
C17_Step ==
    histColl' # histColl =>
        \E t \in Threads :
            /\ pc[t] = "regExec"
            /\ pc'[t] = "recvDone"
            /\ WithStore(t)
            /\ Calls(t, "execution") = {}
            /\ History' = Append(History,
                  [Source |-> Source,
                   Name |-> entries[tjob[t]].job.Name,
                   InitializedAt |-> tstart[t],
                   FinishedAt |-> tfin[t],
                   ExecutionTime |-> tdur[t],
                   Error |-> IF terr[t] = NoErr THEN "" ELSE terr[t]])
            /\ histColl'["other"] = histColl["other"]

\* C17: with storage attached exactly one execution record is submitted per
\* executed firing (none for a skipped firing), after the work function has
\* returned; it carries the scheduler's Source and the job's Name, and its
\* failure message is the error text of the work function when it failed and
\* empty when it succeeded.
C17_ExecutionRecord == []C17_Inv /\ [][C17_Step]_vars

\* two firings have finished and left their records, one of a failed and
\* one of a successful run of job "a"
C17_Witness ==
    /\ Len(History) = 2
    /\ \E i \in 1..2 : /\ History[i].Source = Source
                        /\ History[i].Name = "a"
                        /\ History[i].Error = "boom"
    /\ \E i \in 1..2 : /\ History[i].Source = Source
                        /\ History[i].Name = "a"
                        /\ History[i].Error = ""
    /\ \A t \in Threads : pc[t] = "idle"

\* the `running` status write of the firing of goroutine t failed
RunningFailed(t) ==
    /\ WithStore(t)
    /\ terrors[t] # <<>>
    /\ terrors[t][1] = "failed to set job " \o entries[tjob[t]].name
                       \o " to running: " \o StorageErr

\* a run whose `running` write failed goes on as any other: the work
\* function is called, then the hooks, the record write and the done write
C18_Inv ==
    \A t \in Threads :
        RunningFailed(t) =>
            /\ pc[t] \in {"callFunc", "inFunc", "hung", "hooks", "newLog",
                          "since", "recvExec", "regExec", "recvDone",
                          "setDone", "unlock", "panic", "unwind", "idle"}
            /\ ~crashed =>
                  /\ pc[t] = "callFunc" => ENABLED CallFunc(t)
                  /\ pc[t] = "hooks" => ENABLED Hooks(t)
                  /\ pc[t] = "newLog" => ENABLED NewLog(t)
                  /\ pc[t] = "since" => ENABLED Since(t)
                  /\ pc[t] \in {"recvExec", "recvDone"} =>
                        ENABLED LoadStorage(t)
                  /\ pc[t] = "regExec" =>
                        \A ok \in BOOLEAN : ENABLED RegExec(t, ok)
                  /\ pc[t] = "setDone" =>
                        \A ok \in BOOLEAN : ENABLED SetDone(t, ok)
            /\ pc[t] # "callFunc" => Has(t, 2)
            /\ PastHooks(t) => HooksDone(t)
            /\ (PastHooks(t) /\ pc[t] \notin RecordPos) => Has(t, 5)
            /\ (PastHooks(t) /\ pc[t] \in {"unlock", "idle"}) => Has(t, 6)

\* the failing `running` write changes nothing in the store and sends the
\* run on to the call of the work function
C18_Step ==
    \A t \in Threads :
        SetRunning(t, FALSE) =>
            /\ pc'[t] = "callFunc"
            /\ RunningFailed(t)'
            /\ UNCHANGED <<jobsColl, histColl, mu>>

\* C18: a failure of the `running` status write does not prevent the run:
\* the work function and the hooks are still called, and the execution-record
\* write and the `done` write are still attempted.
C18_RunningWriteFailure == []C18_Inv /\ [][C18_Step]_vars

\* a firing whose `running` write failed has called the work function and
\* both hooks, submitted its record and its `done` write, and returned
C18_Witness ==
    \E t \in Threads :
        /\ RunningFailed(t)
        /\ pc[t] = "idle"
        /\ Has(t, 2) /\ Has(t, 3) /\ Has(t, 4) /\ Has(t, 5) /\ Has(t, 6)

\* the record of the job of goroutine t after a successful `done` write
DoneRecord(t) ==
    [present |-> TRUE, status |-> JobStatusDone,
     sched |-> entries[tjob[t]].job.Schedule,
     descr |-> entries[tjob[t]].job.Description,
     error |-> IF terr[t] = NoErr THEN "" ELSE terr[t],
     exit_with_err |-> (terr[t] # NoErr)]

\* the `done` status write of the firing of goroutine t failed
DoneFailed(t) ==
    \E i \in 1..Len(terrors[t]) :
        terrors[t][i] = "failed to set job " \o entries[tjob[t]].name
                        \o " to done: " \o StorageErr

\* a run that is about to return after a successful `done` write has left
\* the record of a finished run
C19_Inv ==
    \A t \in Threads :
        (WithStore(t) /\ pc[t] = "unlock" /\ ~DoneFailed(t)) =>
            Store[entries[tjob[t]].name] = DoneRecord(t)

\* the successful `done` write stores the record of the finished run and
\* touches no other record
C19_Step ==
    \A t \in Threads :
        SetDone(t, TRUE) =>
            /\ Store'[entries[tjob[t]].name] = DoneRecord(t)
            /\ \A n \in JobNames \ {entries[tjob[t]].name} :
                  Store'[n] = Store[n]
            /\ ~DoneFailed(t)'

\* C19: when a run completes and its `done` write succeeds, the persisted
\* status is `done`, the "exited with error" flag is true exactly when the
\* work function returned a non-nil error, and the persisted error text is
\* the message of that error (empty after a success).
C19_DoneRecord == []C19_Inv /\ [][C19_Step]_vars

\* a successful run has written its `done` record over that of an earlier
\* failed run
C19_Witness ==
    \E t \in Threads, u \in Threads :
        /\ WithStore(t) /\ pc[t] = "unlock" /\ ~DoneFailed(t)
        /\ terr[t] = NoErr
        /\ Store["a"].status = JobStatusDone
        /\ ~Store["a"].exit_with_err
        /\ Store["a"].error = ""
        /\ u # t /\ pc[u] = "idle" /\ WithStore(u) /\ ~DoneFailed(u)
        /\ terr[u] # NoErr /\ Has(u, 6)

(***************************************************************************)
(* The status writes of one job.                                           *)
(***************************************************************************)
\* C20: for one job on one scheduler, under any interleaving of firings, the
\* status writes the scheduler issues are `initialized` once, at
\* registration, and then strictly alternating `running`, `done`, `running`,
\* `done`, ...: two `running` writes are never issued without a `done`
\* write between them, and no `running` or `done` write comes before the
\* `initialized` write.
C20_StatusWrites ==
    \A e \in Entries :
        LET w == stats[e].writes
        IN  IF entries[e].storageSpecified
            THEN /\ Len(w) >= 1
                 /\ w[1] = JobStatusInitialized
                 /\ \A i \in 2..Len(w) :
                       w[i] = IF i % 2 = 0 THEN JobStatusRunning
                              ELSE JobStatusDone
            ELSE w = <<>>

\* the work function of a run panicked after its `running` write, the panic
\* was recovered by the trigger source, and the next firing of the job has
\* issued `running` again: no `done` write lies between the two
C20_Witness ==
    \E e \in Entries, t \in Threads :
        /\ ~crashed
        /\ stats[e].writes =
              <<JobStatusInitialized, JobStatusRunning, JobStatusRunning>>
        /\ tjob[t] = e
        /\ pc[t] = "idle"
        /\ Calls(t, "panic") # {}

(***************************************************************************)
(* ErrGroup.                                                               *)
(***************************************************************************)
\* the non-nil errors among the arguments of the Add calls, in order
NonNilAdded == SelectSeq(egAdded, LAMBDA e : e # NoErr)

\* C21: ErrGroup.Add(nil) is a no-op and Add of a non-nil error appends it
\* at the end: after any sequence of Add calls Len() is the number of
\* non-nil errors added and GetErrors() lists them in insertion order.
C21_Add ==
    IF errGroup.isNil
    THEN /\ ErrGroupLen(errGroup) = 0
         /\ GetErrors(errGroup) = <<>>
    ELSE /\ ErrGroupLen(errGroup) = Len(NonNilAdded)
         /\ GetErrors(errGroup) = NonNilAdded
         /\ \A err \in ErrInputs :
               Add(errGroup, err) =
                  IF err = NoErr THEN errGroup
                  ELSE [errGroup EXCEPT !.Errors = Append(@, err)]

\* nil, "first error", nil and "second error" were added to a new group
C21_Witness ==
    /\ ~errGroup.isNil
    /\ egAdded = <<"first error", NoErr, "second error">>
    /\ GetErrors(errGroup) = <<"first error", "second error">>
    /\ ErrGroupLen(errGroup) = 2

\* the messages of errs from index i on, with "; " between them only
RECURSIVE JoinFrom(_, _)
JoinFrom(errs, i) ==
    IF i > Len(errs) THEN ""
    ELSE IF i = Len(errs) THEN errs[i]
    ELSE errs[i] \o "; " \o JoinFrom(errs, i + 1)

\* C22: for a non-empty ErrGroup without an ID, Error() is the constituent
\* messages in insertion order joined by "; ", the delimiter appearing only
\* between messages: combining "first error" and "second error" yields
\* exactly "first error; second error".
C22_ErrorJoined ==
    (/\ ~errGroup.isNil
     /\ errGroup.ID = ""
     /\ ~errGroup.WithNewline
     /\ GetErrors(errGroup) # <<>>) =>
        Error(errGroup) = JoinFrom(GetErrors(errGroup), 1)

\* the group of the repository's test: "first error" and "second error"
\* were added to a new group without props, and Error() ends with "; "
C22_Witness ==
    /\ errGroup = [NewErrGroup("", FALSE) EXCEPT
                      !.Errors = <<"first error", "second error">>]
    /\ Error(errGroup) = "first error; second error; "

\* C23: ToErr() returns no failure (nil) if and only if the ErrGroup holds
\* no errors (Len() = 0, a nil group included); it returns a non-nil failure
\* whenever at least one non-nil error was added, and Error() of an empty
\* group is the empty string.
C23_ToErr ==
    /\ ToErr(errGroup).isNil <=> (ErrGroupLen(errGroup) = 0)
    /\ errGroup.isNil => ToErr(errGroup).isNil
    /\ (~errGroup.isNil /\ NonNilAdded # <<>>) =>
          /\ ~ToErr(errGroup).isNil
          /\ ToErr(errGroup).text = Error(errGroup)
    /\ ErrGroupLen(errGroup) = 0 => Error(errGroup) = ""

\* nil was added twice to a new group: it is empty, ToErr() is nil and
\* Error() is the empty string
C23_Witness ==
    /\ ~errGroup.isNil
    /\ egAdded = <<NoErr, NoErr>>
    /\ ErrGroupLen(errGroup) = 0
    /\ ToErr(errGroup).isNil
    /\ Error(errGroup) = ""

(***************************************************************************)
(* MongoCronStorage.                                                       *)
(***************************************************************************)
\* C24: SetJobsToInactive(source) sets the persisted status of every job
\* record whose source equals `source` to `inactive` and leaves the records
\* of every other source, and all fields other than the status, unchanged.
C24_SetJobsToInactive ==
    [][\A source \in Sources \cup {"none"} :
          SetJobsToInactiveCall(source, TRUE) =>
              /\ Len(cronListColl') = Len(cronListColl)
              /\ \A i \in 1..Len(cronListColl) :
                    LET d == cronListColl[i]
                        e == cronListColl'[i]
                    IN  /\ [e EXCEPT !.status = ""] = [d EXCEPT !.status = ""]
                        /\ e.status = IF d.source = source
                                      THEN JobStatusInactive ELSE d.status]_vars

\* after SetJobsToInactive("src") the record of source "src" is inactive and
\* the record of source "other", written before it, still is `done`
C24_Witness ==
    /\ Len(cronListColl) = 2
    /\ \E i \in 1..2 :
          /\ cronListColl[i].source = Source
          /\ cronListColl[i].status = JobStatusInactive
          /\ cronListColl[i].error = "boom"
    /\ \E i \in 1..2 :
          /\ cronListColl[i].source = "other"
          /\ cronListColl[i].status = JobStatusDone

\* C26: RegisterJob is an upsert keyed by (source, name): after any sequence
\* of RegisterJob calls the store holds at most one job record per
\* (source, name) pair, its created_at is set by the first write for that
\* pair and never changed by later writes, and its status is the status of
\* the most recent successful write.
C26_Upsert ==
    /\ \A i \in 1..Len(cronListColl), k \in 1..Len(cronListColl) :
          (/\ cronListColl[i].source = cronListColl[k].source
           /\ cronListColl[i].name = cronListColl[k].name) => i = k
    /\ \A i \in 1..Len(cronListColl) :
          LET d == cronListColl[i]
              h == docHist[<<d.source, d.name>>]
          IN  /\ h.first # NoTime
              /\ d.created_at = h.first
              /\ d.status = h.last
    /\ \A key \in DocKeys :
          docHist[key].first # NoTime =>
              FindOne(cronListColl, 1, key[1], key[2]) # 0

\* the record of ("src", "a") was written at times 1 and 3, the write at
\* time 2 having failed: it is the only record, created at 1, updated at 3,
\* with the status of the last write
C26_Witness ==
    /\ wall = 4
    /\ Len(cronListColl) = 1
    /\ cronListColl[1].source = Source
    /\ cronListColl[1].name = "a"
    /\ cronListColl[1].created_at = 1
    /\ cronListColl[1].updated_at = 3
    /\ cronListColl[1].status = JobStatusDone
    /\ cronListColl[1].finished_at = 3

(***************************************************************************)
(* The statuses the scheduler writes.                                      *)
(***************************************************************************)
\* C25: the scheduler itself only ever writes the statuses `initialized`,
\* `running` and `done`: neither Register, Start nor any firing writes
\* `inactive` or `removed` or calls SetJobsToInactive.
C25_StatusesWritten ==
    LET written == {JobStatusInitialized, JobStatusRunning, JobStatusDone}
    IN  /\ \A e \in Entries :
              \A i \in 1..Len(stats[e].writes) : stats[e].writes[i] \in written
        /\ \A t \in Threads :
              \A i \in Calls(t, "status") : tlog[t][i].arg \in written
        /\ \A st \in Storages, n \in JobNames :
              jobsColl[st][n].present => jobsColl[st][n].status \in written
        /\ cronListColl = <<>>

\* a failed run has finished: the three statuses were written for its job,
\* and the record holds `done` with the error
C25_Witness ==
    /\ Len(stats) = 1
    /\ stats[1].writes =
          <<JobStatusInitialized, JobStatusRunning, JobStatusDone>>
    /\ Store["a"].status = JobStatusDone
    /\ Store["a"].exit_with_err

(***************************************************************************)
(* The persisted status `running` and the lock of the job.                 *)
(***************************************************************************)
\* the persisted status of entry e, in the attached storage, is `running`
StatusRunning(e) ==
    /\ entries[e].storageSpecified
    /\ Receiver(CronStorage) # "nil"
    /\ jobsColl[Receiver(CronStorage)][entries[e].name].present
    /\ jobsColl[Receiver(CronStorage)][entries[e].name].status
          = JobStatusRunning

\* C27, as stated: whenever the persisted status of a job is `running`, a
\* run of that job is in progress, its lock held, in every reachable state,
\* those after a failed `done` write included.
C27_RunningMeansHeld ==
    \A e \in Entries : StatusRunning(e) => mu[e]

\* the `done` write of a run has failed and the run has returned: the lock
\* is free, no goroutine is in a run of the job, and the status is `running`
C27_Witness ==
    /\ Len(entries) = 1
    /\ StatusRunning(1)
    /\ ~mu[1]
    /\ stats[1].lastEnd = "doneFailed"
    /\ stats[1].returned = 1
    /\ \A t \in Threads : pc[t] = "idle"

(***************************************************************************)
(* The persistence failures of a run and its ErrGroup.                     *)
(***************************************************************************)
\* the messages the closure adds for the failures of its three writes, in
\* the order of the writes
PersistenceMsgs(name) ==
    << "failed to set job " \o name \o " to running: " \o StorageErr,
       "failed to register execution for " \o name \o ": " \o StorageErr,
       "failed to set job " \o name \o " to done: " \o StorageErr >>

\* the place of message m among msgs, 0 if it is none of them
MsgRank(msgs, m) ==
    IF m = msgs[1] THEN 1
    ELSE IF m = msgs[2] THEN 2
    ELSE IF m = msgs[3] THEN 3
    ELSE 0

\* the ErrGroup of a run holds failures of its own writes only, in the order
\* of the writes; it is empty when the first write is issued; and a run
\* whose record write was issued and that has left the closure has issued
\* its `done` write
C28_Inv ==
    \A t \in Threads :
        /\ (tjob[t] # 0 /\ terrors[t] # <<>>) =>
              LET msgs == PersistenceMsgs(entries[tjob[t]].name)
              IN  /\ \A i \in 1..Len(terrors[t]) :
                        MsgRank(msgs, terrors[t][i]) # 0
                  /\ \A i \in 1..(Len(terrors[t]) - 1) :
                        MsgRank(msgs, terrors[t][i])
                           < MsgRank(msgs, terrors[t][i + 1])
        /\ pc[t] \in {"recvRunning", "running"} => terrors[t] = <<>>
        /\ (~crashed /\ pc[t] = "recvDone") => ENABLED LoadStorage(t)
        /\ (~crashed /\ pc[t] = "setDone") => ENABLED SetDone(t, FALSE)
        /\ (pc[t] \in {"unlock", "idle"} /\ Calls(t, "execution") # {})
           => \E i \in Calls(t, "status") : tlog[t][i].arg = JobStatusDone

\* each failed write adds its message to the ErrGroup of the run and the run
\* goes on to its next step; a write that succeeds adds nothing; entering
\* the closure creates the group empty
C28_Step ==
    \A t \in Threads :
        /\ (pc[t] \in {"running", "regExec", "setDone"} /\ pc'[t] # pc[t]) =>
              LET msgs == PersistenceMsgs(entries[tjob[t]].name)
              IN  /\ SetRunning(t, FALSE) =>
                        /\ terrors'[t] = Append(terrors[t], msgs[1])
                        /\ pc'[t] = "callFunc"
                  /\ RegExec(t, FALSE) =>
                        /\ terrors'[t] = Append(terrors[t], msgs[2])
                        /\ pc'[t] = "recvDone"
                  /\ SetDone(t, FALSE) =>
                        terrors'[t] = Append(terrors[t], msgs[3])
                  /\ (SetRunning(t, TRUE) \/ RegExec(t, TRUE)
                      \/ SetDone(t, TRUE)) => terrors'[t] = terrors[t]
        /\ (pc[t] = "recvDone" /\ pc'[t] # pc[t]) =>
              pc'[t] = "setDone" /\ terrors'[t] = terrors[t]
        /\ (pc[t] = "locked" /\ pc'[t] # "locked") => terrors'[t] = <<>>

\* C28: the two post-run writes do not short-circuit: a failure of the
\* execution-record write does not prevent the `done` status write from
\* being attempted, and every persistence failure of a run (running write,
\* record write, done write) is added to the ErrGroup of that run, which is
\* created fresh for each run.
C28_NoShortCircuit == []C28_Inv /\ [][C28_Step]_vars

\* all three writes of a run have failed: its ErrGroup holds the three
\* messages, and the `done` write was attempted after the failed record write
C28_Witness ==
    \E t \in Threads :
        /\ pc[t] = "unlock"
        /\ WithStore(t)
        /\ terrors[t] = PersistenceMsgs(entries[tjob[t]].name)
        /\ tlog[t][Len(tlog[t])] = Ev("status", JobStatusDone)

(***************************************************************************)
(* Persistence and execution.                                              *)
(***************************************************************************)
\* the positions of a run that only a job with storage goes through: those
\* at which it is about to issue a storage call, waits for one, or builds
\* the record
StoragePos ==
    {"recvRunning", "running", "newLog", "since", "recvExec", "regExec",
     "recvDone", "setDone"}

\* the position of goroutine t with the storage calls left out: a run about
\* to issue the `running` write is about to call the work function, a run
\* about to build its record or to issue a post-run write is about to
\* return
ExecPos(t) ==
    IF pc[t] \in {"recvRunning", "running"} THEN "callFunc"
    ELSE IF pc[t] \in StoragePos THEN "unlock"
    ELSE pc[t]

\* the calls the firing of goroutine t has made so far other than storage
\* calls, in order: the work function, the hooks with their arguments, the
\* skip message, and the panic of the work function
ExecCalls(t) ==
    SelectSeq(tlog[t], LAMBDA ev : ev.op \notin {"status", "execution"})

\* what execution shows of goroutine t
ExecView(t) ==
    [pos |-> ExecPos(t), calls |-> ExecCalls(t), err |-> terr[t],
     job |-> tjob[t]]

\* the calls of a firing are those its position, its job and the result of
\* the work function determine; a run is never held up at a storage call;
\* and a firing of a job registered without storage is never at a storage
\* call and has issued none
C29_Inv ==
    /\ \A t \in Threads :
          tjob[t] # 0 =>
              LET j == entries[tjob[t]].job
                  done == <<Ev("Func", "")>> \o HookEvents(j, terr[t])
              IN  /\ ExecPos(t) \in {"Run", "locked", "callFunc", "skip"}
                        => ExecCalls(t) = <<>>
                  /\ ExecPos(t) \in {"inFunc", "hung", "hooks"}
                        => ExecCalls(t) = <<Ev("Func", "")>>
                  /\ ExecPos(t) \in {"panic", "unwind"}
                        => ExecCalls(t) = <<Ev("Func", ""), Ev("panic", "")>>
                  /\ ExecPos(t) = "unlock" => ExecCalls(t) = done
                  /\ ExecPos(t) = "idle"
                        => ExecCalls(t) \in
                              {<<Ev("skip", j.Name)>>,
                               <<Ev("Func", ""), Ev("panic", "")>>, done}
                  /\ (~crashed /\ pc[t] \in RecvPos) => ENABLED LoadStorage(t)
                  /\ (~crashed /\ pc[t] = "running") =>
                        ENABLED SetRunning(t, TRUE) /\ ENABLED SetRunning(t, FALSE)
                  /\ (~crashed /\ pc[t] = "newLog") => ENABLED NewLog(t)
                  /\ (~crashed /\ pc[t] = "since") => ENABLED Since(t)
                  /\ (~crashed /\ pc[t] = "regExec") =>
                        ENABLED RegExec(t, TRUE) /\ ENABLED RegExec(t, FALSE)
                  /\ (~crashed /\ pc[t] = "setDone") =>
                        ENABLED SetDone(t, TRUE) /\ ENABLED SetDone(t, FALSE)
                  /\ ~WithStore(t) =>
                        /\ pc[t] \notin StoragePos
                        /\ Calls(t, "status") = {}
                        /\ Calls(t, "execution") = {}
                        /\ terrors[t] = <<>>
    /\ \A e \in Entries :
          ~entries[e].storageSpecified => stats[e].writes = <<>>
    /\ ~NotNil(CronStorage) =>
          \A st \in Storages :
              /\ \A n \in JobNames : ~jobsColl[st][n].present
              /\ histColl[st] = <<>>

\* a firing is skipped exactly when the lock of its job is held; a storage
\* call, whether it succeeds or fails, changes nothing execution shows: not
\* the position, the calls or the result of any firing, not a lock and not
\* the registry; and the store changes only at a storage call of a run with
\* storage, or at the `initialized` write of a Register call
C29_Step ==
    /\ \A t \in Threads :
          /\ TryLockStep(t) => (pc'[t] = "skip" <=> mu[tjob[t]])
          /\ (pc[t] \in StoragePos /\ pc'[t] # pc[t]) =>
                /\ \A u \in Threads : ExecView(u)' = ExecView(u)
                /\ mu' = mu
                /\ UNCHANGED schedVars
                /\ crashed' = crashed
    /\ (jobsColl' # jobsColl \/ histColl' # histColl) =>
          \/ \E t \in Threads :
                WithStore(t) /\ pc[t] \in StoragePos /\ pc'[t] # pc[t]
          \/ reg[1].pc = "store" /\ reg'[1].pc # "store"

\* C29: persistence is invisible to execution: which firings execute or are
\* skipped, and the sequence of work-function and hook calls with their
\* arguments, are the same whether storage is absent, attached and
\* succeeding, or attached and failing on any subset of its writes; with no
\* storage attached no storage operation is ever called.
C29_PersistenceInvisible == []C29_Inv /\ [][C29_Step]_vars

\* a firing of a job with both hooks, whose three storage calls all failed
\* and whose work function failed, has made the calls of a run without
\* storage, while a second firing of the job was skipped
C29_Witness ==
    \E t, u \in Threads :
        /\ WithStore(t)
        /\ pc[t] = "unlock"
        /\ Len(terrors[t]) = 3
        /\ terr[t] # NoErr
        /\ ExecCalls(t) = <<Ev("Func", ""), Ev("OnComplete", terr[t]),
                            Ev("OnError", terr[t])>>
        /\ tjob[u] = tjob[t]
        /\ pc[u] = "idle"
        /\ ExecCalls(u) = <<Ev("skip", entries[tjob[u]].name)>>

(***************************************************************************)
(* The start timestamp of a run.                                           *)
(***************************************************************************)
\* the record write of the firing of goroutine t failed
ExecFailed(t) ==
    \E i \in 1..Len(terrors[t]) :
        terrors[t][i] = PersistenceMsgs(entries[tjob[t]].name)[2]

\* the start of a run in progress has been read, on both clocks; the
\* `running` write of a run is issued at or after the start of the run; and
\* the run's record, once written, carries the start of the run and a
\* duration that is at least the time from the start to the `running`
\* write
C30_Inv ==
    /\ \A t \in Threads :
          /\ pc[t] \in {"recvRunning", "running", "callFunc", "inFunc",
                        "hooks", "newLog", "since", "recvExec", "regExec"}
                => /\ tstart[t] # NoTime
                   /\ tmono[t] # NoTime
                   /\ tmono[t] <= clock
          /\ pc[t] \in {"recvRunning", "running"} => Calls(t, "status") = {}
          /\ (WithStore(t) /\ pc[t] \in {"callFunc", "inFunc", "hooks",
                                        "newLog", "since", "recvExec",
                                        "regExec", "recvDone", "setDone",
                                        "unlock"})
                => /\ tmono[t] <= stats[tjob[t]].runningAt
                   /\ stats[tjob[t]].runningAt <= clock
          /\ (WithStore(t) /\ pc[t] \in {"recvDone", "setDone", "unlock"}
              /\ ~ExecFailed(t))
                => LET r == History[Len(History)]
                   IN  /\ r.InitializedAt = tstart[t]
                       /\ r.FinishedAt = tfin[t]
                       /\ r.ExecutionTime
                             >= stats[tjob[t]].runningAt - tmono[t]
    /\ \A i \in 1..Len(History) :
          /\ History[i].InitializedAt # NoTime
          /\ History[i].FinishedAt # NoTime
          /\ History[i].ExecutionTime >= 0

\* the start is read, on both clocks, when the closure is entered; the
\* `running` write, the work function and the hooks come after it and leave
\* it as it is; the record is built from it, from the wall clock read when
\* newCronExecutionLog is entered and from the time that has passed on the
\* monotonic clock, which does not go back, when the record is built
C30_Step ==
    /\ clock' >= clock
    /\ \A t \in Threads :
          /\ (pc[t] = "locked" /\ pc'[t] # "locked") =>
                /\ tstart'[t] = wall
                /\ tmono'[t] = clock
                /\ tlog'[t] = <<>>
          /\ (pc[t] \in {"recvRunning", "running", "callFunc", "inFunc",
                         "hooks", "newLog", "since", "recvExec", "regExec"}
              /\ pc'[t] # pc[t]) =>
                /\ tstart'[t] = tstart[t]
                /\ tmono'[t] = tmono[t]
          /\ (pc[t] = "newLog" /\ pc'[t] # "newLog") => tfin'[t] = wall
          /\ (pc[t] = "since" /\ pc'[t] # "since") =>
                tdur'[t] = clock - tmono[t]
          /\ (pc[t] = "regExec" /\ pc'[t] # "regExec"
              /\ histColl' # histColl) =>
                LET r == History'[Len(History')]
                IN  /\ Len(History') = Len(History) + 1
                    /\ r.InitializedAt = tstart[t]
                    /\ r.FinishedAt = tfin[t]
                    /\ r.ExecutionTime = tdur[t]

\* C30: the start timestamp used for the execution record is taken as the
\* first step of a run, before the `running` status write is issued, so the
\* recorded duration covers the `running` status write as well as the work
\* function and the hooks.
C30_StartBeforeRunningWrite == []C30_Inv /\ [][C30_Step]_vars

\* a run of the scheduler of syro.cron.go issued its `running` write at 1
\* and read its start at 2; its record was built at 4: the record says the
\* run took 2, and the time the `running` write took is not in it
C30_Witness ==
    /\ pc[1] = "unlock"
    /\ WithStore(1)
    /\ stats[1].runningAt = 1
    /\ tmono[1] = 2
    /\ tstart[1] = 2
    /\ Len(History) = 1
    /\ History[1].InitializedAt = 2
    /\ History[1].ExecutionTime = 2
    /\ Has(1, 1) /\ Has(1, 2)

(***************************************************************************)
(* Storage attached after a job was registered.                            *)
(***************************************************************************)
\* a firing of a job registered without storage is never at a storage call
\* and has issued none, also when the scheduler has storage by now; a firing
\* of a job registered with storage that is about to return has issued the
\* `running` write, the record write and the `done` write; one that is
\* about to load s.CronStorage for a storage call sends the call while both
\* words are there, and panics while one of them is nil; a call that was
\* sent is carried out whatever s.CronStorage holds by then
C33_Inv ==
    /\ \A e \in Entries :
          ~entries[e].storageSpecified => stats[e].writes = <<>>
    /\ \A t \in Threads :
          tjob[t] # 0 =>
              IF entries[tjob[t]].storageSpecified
              THEN /\ pc[t] = "unlock" => Has(t, 1) /\ Has(t, 5) /\ Has(t, 6)
                   /\ (~crashed /\ Receiver(CronStorage) # "nil") =>
                         /\ pc[t] \in RecvPos => ENABLED LoadStorage(t)
                         /\ ~ENABLED NilStorage(t)
                   /\ (~crashed /\ Receiver(CronStorage) = "nil"
                       /\ pc[t] \in RecvPos) =>
                         /\ ENABLED NilStorage(t)
                         /\ ~ENABLED LoadStorage(t)
                   /\ ~crashed =>
                         /\ pc[t] = "running" => ENABLED SetRunning(t, TRUE)
                         /\ pc[t] = "regExec" => ENABLED RegExec(t, TRUE)
                         /\ pc[t] = "setDone" => ENABLED SetDone(t, TRUE)
                   /\ pc[t] \in {"running", "regExec", "setDone"}
                         <=> trecv[t] # "nil"
              ELSE /\ pc[t] \notin StoragePos
                   /\ Calls(t, "status") = {}
                   /\ Calls(t, "execution") = {}

\* Register fixes whether the job persists from what s.CronStorage != nil
\* gives when the call is entered; WithStorage, and every later step, leaves
\* what was fixed for the registered jobs as it is; a step of a firing of a
\* job registered without storage leaves the stores alone; a storage call
\* of a job registered with storage goes to the storage the two words of
\* s.CronStorage give when the closure loads them for the call, and to no
\* store when one of them is nil: the call panics
C33_Step ==
    /\ (reg[1].pc \in {"idle", "returned"}
        /\ reg'[1].pc \notin {"idle", "returned"}) =>
          reg'[1].storageSpecified = NotNil(CronStorage)
    /\ Len(entries') = Len(entries) + 1 =>
          entries'[Len(entries')].storageSpecified = reg[1].storageSpecified
    /\ \A e \in Entries :
          entries'[e].storageSpecified = entries[e].storageSpecified
    /\ \A t \in Threads :
          /\ (tjob[t] # 0 /\ ~entries[tjob[t]].storageSpecified
              /\ pc'[t] # pc[t] /\ pc[t] # "idle")
                => jobsColl' = jobsColl /\ histColl' = histColl
          /\ (pc[t] \in RecvPos /\ pc'[t] # pc[t]
              /\ Receiver(CronStorage) # "nil") =>
                /\ pc'[t] = SentPos(pc[t])
                /\ trecv'[t] = Receiver(CronStorage)
                /\ jobsColl' = jobsColl
                /\ histColl' = histColl
          /\ (pc[t] \in RecvPos /\ pc'[t] # pc[t]
              /\ Receiver(CronStorage) = "nil") =>
                /\ pc'[t] = "panic"
                /\ jobsColl' = jobsColl
                /\ histColl' = histColl
          /\ (pc[t] \in {"running", "setDone"} /\ pc'[t] # pc[t]) =>
                /\ jobsColl'[trecv[t]][entries[tjob[t]].name].status
                      = (IF pc[t] = "running" THEN JobStatusRunning
                         ELSE JobStatusDone)
                /\ \A st \in Storages \ {trecv[t]} :
                      jobsColl'[st] = jobsColl[st]
                /\ histColl' = histColl
          /\ (pc[t] = "regExec" /\ pc'[t] # pc[t]) =>
                /\ Len(histColl'[trecv[t]]) = Len(histColl[trecv[t]]) + 1
                /\ \A st \in Storages \ {trecv[t]} :
                      histColl'[st] = histColl[st]
                /\ jobsColl' = jobsColl

\* C33: whether a job persists anything is fixed when it is registered: a
\* job registered while no storage is attached never issues a status or
\* execution-record write on any firing, even if storage is attached to the
\* scheduler afterwards; jobs registered after the attachment do issue them.
C33_FixedAtRegistration == []C33_Inv /\ [][C33_Step]_vars

\* the scheduler has storage, and a firing of a job that was registered
\* before it had is about to return: it called the work function, issued no
\* write, and the stores are empty
C33_Witness ==
    \E t \in Threads :
        /\ CronStorage = Iface("storage")
        /\ tjob[t] # 0
        /\ ~entries[tjob[t]].storageSpecified
        /\ pc[t] = "unlock"
        /\ Has(t, 2)
        /\ stats[tjob[t]].writes = <<>>
        /\ \A st \in Storages :
              /\ \A n \in JobNames : ~jobsColl[st][n].present
              /\ histColl[st] = <<>>

(***************************************************************************)
(* Registration and its storage write.                                     *)
(***************************************************************************)
\* a Register call with storage is at AddJob only with its `initialized`
\* record in the store
C34_Inv ==
    (reg[1].pc = "install" /\ reg[1].storageSpecified) =>
        \E st \in Storages :
            jobsColl[st][reg[1].job.Name] = InitializedRecord(reg[1].job)

\* a Register that has written the `initialized` record, with a schedule
\* cron.AddJob rejects, returns the error of AddJob, leaves the registry and
\* the triggers as they were, and leaves every record of every store as it
\* is
C34_Step ==
    (/\ reg[1].pc = "install" /\ reg'[1].pc # "install"
     /\ reg[1].job.Schedule = "bad") =>
        /\ Returned(ParseErr)
        /\ UNCHANGED <<Jobs, entries, mu, stats, jobsColl>>
        /\ \A i \in 1..Len(Jobs') : Jobs'[i].Name # reg[1].job.Name
        /\ \A e \in 1..Len(entries') : entries'[e].name # reg[1].job.Name

\* C34: registration does not roll back its storage write: when the
\* `initialized` status write succeeds and the trigger installation then
\* fails, Register returns the installation error and the registry is
\* unchanged, but the store keeps an `initialized` record for that (source,
\* name), a persisted job that is not in the registry and will never fire.
C34_NoRollback == []C34_Inv /\ [][C34_Step]_vars

\* Register has just failed in cron.AddJob: the store holds the
\* `initialized` record of "a", and no job and no trigger has that name
C34_Witness ==
    /\ ret = ParseErr
    /\ reg[1].pc = "returned"
    /\ reg[1].ret = ParseErr
    /\ jobsColl["storage"]["a"].present
    /\ jobsColl["storage"]["a"].status = JobStatusInitialized
    /\ jobsColl["storage"]["a"].sched = "bad"
    /\ \A i \in 1..Len(Jobs) : Jobs[i].Name # "a"
    /\ \A e \in Entries : entries[e].name # "a"
    /\ \A t \in Threads : ~ENABLED Fire(t, Len(entries) + 1)

(***************************************************************************)
(* Rejection by validation, and the order of the checks.                   *)
(***************************************************************************)
\* the checks of Register in the order the claims give them, each with the
\* error it reports; the nil receiver is checked between the nil job and the
\* nil trigger source
Checks(recvNil, j) ==
    << [fails |-> j.isNil, msg |-> "job cannot be nil"],
       [fails |-> recvNil, msg |-> "cron scheduler cannot be nil"],
       [fails |-> cron = "nil", msg |-> "cron cannot be nil"],
       [fails |-> j.Schedule = "", msg |-> "schedule has to be specified"],
       [fails |-> j.Name = "", msg |-> "name has to be specified"],
       [fails |-> ~j.Func, msg |-> "job function cannot be nil"],
       [fails |-> NameTaken(j), msg |-> DuplicateError(j)] >>

\* the checks of Register that (recvNil, j) fails
Failing(recvNil, j) ==
    {k \in 1..7 : Checks(recvNil, j)[k].fails}

\* a Register call that some check rejects returns in its first step; that
\* step changes neither a store, nor the registry, the triggers, the locks
\* or a field of the scheduler
C35_Step ==
    /\ (\/ jobsColl' # jobsColl \/ histColl' # histColl \/ Jobs' # Jobs
        \/ entries' # entries \/ mu' # mu \/ stats' # stats
        \/ cron' # cron \/ CronStorage' # CronStorage
        \/ cronRunning' # cronRunning \/ reg'[1].pc # "returned") =>
          \A recvNil \in BOOLEAN, j \in RegisterInputs :
              Failing(recvNil, j) # {} => ~RegEnter(1, recvNil, j)
    /\ (reg'[1].pc = "returned" /\ reg'[1] # reg[1]
        /\ reg'[1].ret \notin {NoErr, StorageErr, ParseErr, Panicked}) =>
          UNCHANGED <<jobsColl, histColl, Jobs, entries, mu, stats, cron,
                      CronStorage>>

\* C35: a Register call rejected by validation (nil job, nil trigger source,
\* empty schedule, empty name, nil work function, duplicate name) has no
\* side effect at all: it issues no storage write, installs nothing with the
\* trigger source, and leaves the registry and the passed Job unchanged.
C35_RejectionNoEffect == [][C35_Step]_vars

\* a scheduler with storage holds job "a", a Register was just rejected
\* for a duplicate name, and the store has the record of "a" only
C35_Witness ==
    /\ CronStorage = Iface("storage")
    /\ Len(Jobs) = 1 /\ Jobs[1].Name = "a"
    /\ Len(entries) = 1
    /\ ret = "job with name a already exists"
    /\ reg[1].pc = "returned"
    /\ jobsColl["storage"]["a"] = InitializedRecord(Jobs[1])
    /\ ~jobsColl["storage"]["A"].present /\ ~jobsColl["storage"][""].present

\* C36: validation checks have a fixed precedence: when a job violates
\* several preconditions, Register reports the first failing one in the
\* order nil job, nil trigger source, empty schedule, empty name, nil work
\* function, duplicate name; a job with an empty schedule whose name is
\* already taken gets the missing-schedule error, not the duplicate-name
\* error.  In every state, no Register call that fails some check can return
\* anything but the error of the first check it fails.
C36_Precedence ==
    (~crashed /\ reg[1].pc \in {"idle", "returned"}) =>
        \A recvNil \in BOOLEAN, j \in RegisterInputs :
            LET F == Failing(recvNil, j)
            IN  F # {} =>
                  LET first == CHOOSE k \in F : \A m \in F : k <= m
                  IN  /\ ENABLED RegEnter(1, recvNil, j)
                      /\ ~ENABLED (/\ RegEnter(1, recvNil, j)
                                   /\ ret' # Checks(recvNil, j)[first].msg)

\* the registry holds "a" and a Register was just rejected for a missing
\* schedule, in a state where a job named "a" without schedule and without
\* work function fails three checks
C36_Witness ==
    /\ Len(Jobs) = 1 /\ Jobs[1].Name = "a"
    /\ cron # "nil"
    /\ ret = "schedule has to be specified"
    /\ Failing(FALSE, [isNil |-> FALSE, Name |-> "a", Schedule |-> "",
                       Func |-> FALSE, Description |-> "d",
                       OnError |-> FALSE, OnComplete |-> FALSE]) = {4, 6, 7}

(***************************************************************************)
(* Register calls side by side and the uniqueness of names.                *)
(***************************************************************************)
\* C31: name uniqueness also holds under concurrency: when two Register
\* calls for jobs with the same name run interleaved on one scheduler, at
\* most one of them returns nil and at most one job with that name ends up
\* in the registry and installed with the trigger source.
C31_UniqueUnderConcurrency ==
    /\ \A c, d \in Threads :
          (/\ c # d
           /\ reg[c].pc = "returned" /\ reg[c].ret = NoErr
           /\ reg[d].pc = "returned" /\ reg[d].ret = NoErr)
              => reg[c].job.Name # reg[d].job.Name
    /\ \A i, k \in 1..Len(Jobs) : i # k => Jobs[i].Name # Jobs[k].Name
    /\ \A e, f \in Entries : e # f => entries[e].name # entries[f].name

\* two Register calls for the name "a" are past the duplicate-name check at
\* the same time, on a scheduler whose registry is still empty
C31_Witness ==
    \E c, d \in Threads :
        /\ c # d
        /\ reg[c].pc \in {"recv", "store", "install"}
        /\ reg[d].pc \in {"recv", "store", "install"}
        /\ reg[c].job.Name = "a" /\ reg[d].job.Name = "a"
        /\ Jobs = <<>>

(***************************************************************************)
(* SetJobsToInactive and the runs of the jobs.                             *)
(***************************************************************************)
\* SetJobsToInactive is never held up by a run: it can be called while the
\* lock of a job is held, at any position of the run
C32_Inv ==
    Len(inactiveCalls) < MaxInactive /\ ~crashed =>
        ENABLED SetInactive("storage", TRUE)

\* a call of SetJobsToInactive that succeeds sets every record to inactive
\* and changes no lock and no position of any run; the `running` write and
\* the `done` write of a run, before or after such a call, leave the status
\* `running` and `done`, whatever it was
C32_Step ==
    /\ (Len(inactiveCalls') # Len(inactiveCalls)
        /\ inactiveCalls'[Len(inactiveCalls')].ok) =>
          /\ \A n \in JobNames :
                Store[n].present =>
                    /\ Store'[n].present
                    /\ Store'[n].status = JobStatusInactive
          /\ mu' = mu /\ pc' = pc /\ tjob' = tjob
    /\ \A t \in Threads :
          /\ (pc[t] = "running" /\ pc'[t] # pc[t]) =>
                Store'[entries[tjob[t]].name].status = JobStatusRunning
          /\ (pc[t] = "setDone" /\ pc'[t] # pc[t]) =>
                Store'[entries[tjob[t]].name].status = JobStatusDone

\* C32: SetJobsToInactive is not synchronized with execution and `inactive`
\* is not sticky: if a job of the source is running when
\* SetJobsToInactive(source) is applied, or fires afterwards, its later
\* `running` and `done` status writes overwrite `inactive`, so after the
\* call returns a job of that source can again have status `running` or
\* `done`.
C32_InactiveNotSticky == []C32_Inv /\ [][C32_Step]_vars

\* SetJobsToInactive was applied while the job was running, the run has
\* since written `done`, and a firing that came afterwards has written
\* `running`
C32_Witness ==
    /\ inactiveCalls = <<[ok |-> TRUE, held |-> TRUE]>>
    /\ Len(stats) = 1
    /\ stats[1].writes = <<JobStatusInitialized, JobStatusRunning,
                           JobStatusDone, JobStatusRunning>>
    /\ Store["a"].status = JobStatusRunning
    /\ stats[1].returned = 1

(***************************************************************************)
(* FindExecutions: the filter and the limit.                               *)
(***************************************************************************)
\* how many times record r occurs in docs
Count(docs, r) == Cardinality({i \in 1..Len(docs) : docs[i] = r})

\* record r passes the filter f as the claim reads it
Passes(r, f) ==
    /\ r.InitializedAt >= f.From /\ r.InitializedAt <= f.To
    /\ f.Source # "" => r.Source = f.Source
    /\ f.Name # "" => r.Name = f.Name
    /\ f.ExecutionTime > 0 => r.ExecutionTime >= f.ExecutionTime

\* C37: FindExecutions applies every filter field that is set: with both
\* From and To set and From not after To it returns exactly the stored
\* execution records whose start timestamp (initialized_at) lies in
\* [From, To] and that match the given source, name and minimum execution
\* time (here for a query that the database answers, that skips nothing and
\* has no limit); with From after To it returns an error and no records.
C37_FindExecutionsFilter ==
    (found.called /\ found.filter.From # NoTime /\ found.filter.To # NoTime)
    => IF found.filter.From > found.filter.To
       THEN found.err # NoErr /\ found.docs = <<>>
       ELSE (/\ found.filter.Skip = 0 /\ found.filter.Limit = 0
             /\ found.err # StorageErr) =>
               /\ found.err = NoErr
               /\ \A r \in ExecInputs :
                     Count(found.docs, r) =
                        IF Passes(r, found.filter)
                        THEN Count(History, r) ELSE 0

\* FindExecutions was called with From = 1 and To = 2 and no other filter,
\* no skip and no limit, on a store that holds a record of a run that began
\* at 3 and one that began at 1
C37_Witness ==
    /\ found.called
    /\ found.filter.From = 1 /\ found.filter.To = 2
    /\ found.filter.Source = "" /\ found.filter.Name = ""
    /\ found.filter.ExecutionTime = 0
    /\ found.filter.Skip = 0 /\ found.filter.Limit = 0
    /\ found.err # StorageErr
    /\ Len(History) = 2
    /\ History[1].InitializedAt = 3
    /\ History[2].InitializedAt = 1

\* C38: maxLimit caps every query: for every filter (including Limit = 0 and
\* Limit > maxLimit) FindExecutions returns at most maxLimit records, the
\* limit handed to the query being min(filter.Limit, maxLimit).
C38_MaxLimitCaps ==
    found.called =>
        /\ Len(found.docs) <= found.maxLimit
        /\ QueryLimit(found.filter.Limit, found.maxLimit) <= found.filter.Limit
        /\ QueryLimit(found.filter.Limit, found.maxLimit) <= found.maxLimit
        /\ QueryLimit(found.filter.Limit, found.maxLimit)
              \in {found.filter.Limit, found.maxLimit}

\* FindExecutions was called with Limit = 0 and maxLimit = 1 and no other
\* filter on a store that holds two records
C38_Witness ==
    /\ found.called
    /\ found.filter.Limit = 0 /\ found.maxLimit = 1
    /\ found.filter.From = NoTime /\ found.filter.To = NoTime
    /\ found.filter.Source = "" /\ found.filter.Name = ""
    /\ found.filter.ExecutionTime = 0 /\ found.filter.Skip = 0
    /\ found.err = NoErr
    /\ Len(History) = 2

=============================================================================
